---- MODULE Spec2Model ----
(***************************************************************************)
(* Space allocation, frames and node trees in benediction.                 *)
(*                                                                         *)
(*   Spec          _utils/solver.py              SpaceAllocator            *)
(*   SpecItem      layout.py                     LayoutItem._allocate_space*)
(*   SpecNode      core/node/layout/layout.py    LayoutNode._allocate_space*)
(*   SpecNodeEdit  core/node/layout/layout.py    the cached solver         *)
(*   SpecLayout    core/node/layout/layout.py    LayoutNode.update_frame   *)
(*   SpecFrame     core/frame.py                 Frame.set_dimensions      *)
(*   SpecCFrame    core/frame.py                 ConstrainedFrame          *)
(*   SpecTree      core/node/node.py             Node, append, extend      *)
(*   SpecStyle     core/node/node.py             Node.style, update_style  *)
(*   SpecBuilder   core/node/layout/builder.py   Layout.row, Layout.col    *)
(*   SpecTranspose core/node/layout/layout.py    LayoutNode.transpose      *)
(*   SpecAnchor    core/frame.py                 Frame.anchor_y, anchor_x  *)
(*   SpecHexes     hexes/layout.py               Column.update, Row.update *)
(*                                                                         *)
(* Python's None is the number None (-1): every bound and size of the      *)
(* program is a strictly positive number.  A Python float is an exact      *)
(* rational <<numerator, denominator>> with a positive denominator: the    *)
(* rounding of IEEE doubles is not modelled, `/` is exact division.        *)
(***************************************************************************)
EXTENDS Integers, Sequences, FiniteSets, TLC

\* ------------------------------------------------------------------ bounds
\* SpaceAllocator: bound values, bounded items, unconstrained items, spaces
MaxBound == 4
MaxBounded == 2
MaxUnconstrained == 2
MaxSpace == 9
\* LayoutItem: nested items, bound values, fixed sizes
MaxItems == 3
MaxItemBound == 2
MaxItemFixed == 2
\* LayoutNode: children, fixed sizes, integer bounds, gaps, spaces
MaxChildren == 2
MaxFixed == 1
MaxNodeBound == 1
MaxGap == 1
MaxNodeSpace == 3
\* Frame: heights and widths
MaxDim == 2

MaxNodes == 4

MaxArgs == 2

MaxStyled == 3
\* transpose: nodes of a tree
MaxFlipNodes == 3
\* anchors: positions, heights and widths
MaxAnchorPos == 3
MaxAnchorSize == 4
\* hexes: rows of a column, heights
MaxHexesItems == 3
MaxHexesSpace == 4

None == 0 - 1

\* ------------------------------------------------------------ state
VARIABLES
    bounds,          \* SpaceAllocator.bounds
    n_unconstrained, \* SpaceAllocator.n_unconstrained
    table,           \* SpaceAllocator._table: <<keys, values>>
    space,           \* argument of the last solve call
    outcome,         \* "none" before the first call, "ok", or the exception raised
    x,               \* value returned by _solve_x in the last call (a rational)
    result           \* tuple returned by the last solve call (rationals)

solverVars == <<bounds, n_unconstrained, table, space, outcome, x, result>>

VARIABLES
    items,           \* LayoutItem._items: the size declarations of the nested items
    items_space,      \* argument of the last LayoutItem._allocate_space call
    item_outcome,    \* "none", "ok", or the exception raised by the last call
    item_result      \* the spaces zipped with the items by the last call

itemVars == <<items, items_space, item_outcome, item_result>>

VARIABLES
    is_row,          \* LayoutNode.is_row
    gap,             \* LayoutNode.spec.gap_x and gap_y (set together by gap=)
    children,        \* the children's ConstrainedFrame declarations
    node_solver,     \* LayoutNode._solver
    node_built,      \* TRUE when the last call constructed a SpaceAllocator
    node_space,      \* argument of the last LayoutNode._allocate_space call
    node_outcome,    \* "none", "ok", or the exception raised by the last call
    node_result      \* the spaces zipped with the children by the last call

nodeVars == <<is_row, gap, children, node_solver, node_built, node_space, node_outcome,
              node_result>>

VARIABLES
    frame,           \* Frame: top, left, height, width and the four paddings
    frame_args,      \* arguments of the last Frame.set_dimensions call made directly
    frame_outcome    \* "none", "ok", or the exception raised by that call

frameVars == <<frame, frame_args, frame_outcome>>

VARIABLES
    cframe_decl,     \* the keyword arguments of ConstrainedFrame(...)
    cframe_outcome,  \* "none", "ok", or the exception raised by the constructor
    cframe_args,     \* arguments of the last ConstrainedFrame.set_dimensions call
    cframe_call,     \* "none", "ok", or the exception raised by that call
    cframe_returned  \* the tuple returned by that call

cframeVars == <<cframe_decl, cframe_outcome, cframe_args, cframe_call, cframe_returned>>

VARIABLES
    node_cframe,     \* LayoutNode.cframe of the node: its own constraints and margins
    node_frame,      \* LayoutNode.frame of the node
    child_frames,    \* the Frames of the children, in child order
    handed,          \* (top, left, height, width) passed to each child by the last call
    update_args,     \* arguments of the last LayoutNode.update_frame call
    update_outcome   \* "none", "ok", or the exception raised by that call

layoutVars == <<node_cframe, node_frame, child_frames, handed, update_args, update_outcome>>

VARIABLES
    tree_nodes,      \* the Node objects constructed so far
    tree_parent,     \* Node.parent of each node (None without a parent)
    tree_children,   \* Node.children of each node
    tree_call,       \* the last call on the tree: "none", "Node" or "extend"
    tree_outcome     \* "none", "ok", or the exception raised by that call

treeVars == <<tree_nodes, tree_parent, tree_children, tree_call, tree_outcome>>

VARIABLES
    layout_kwargs,   \* Layout.kwargs: the declaration of the root
    layout_node,     \* Layout.__node: "None", or the orientation of the root
    layout_call,     \* the last builder call: "none", "row" or "col"
    layout_outcome   \* "none", "ok", or the exception raised by that call

builderVars == <<layout_kwargs, layout_node, layout_call, layout_outcome>>

VARIABLES
    styled_parent,   \* Node.parent of the nodes of a fixed tree (None for the root)
    base_style,      \* NodeSpec.base_style of each node: "parent" or "default"
    style_kwargs,    \* NodeSpec.style_kwargs of each node: the bold flag, or "unset"
    cached_style,    \* Node._cached_style: "deleted", "None", or the cached Style
    style_call,      \* the last call: <<>>, <<"style", n>> or <<"update_style", n, bold>>
    style_outcome    \* "none", "ok", or the exception raised by that call

styleVars == <<styled_parent, base_style, style_kwargs, cached_style, style_call,
               style_outcome>>

VARIABLES
    tree_is_row,     \* LayoutNode.is_row of each node of a tree: "row", "col", or "none" for
                     \* a Node that is not a LayoutNode
    transpose_args   \* <<node, depth, tree_is_row before the call>> of the last transpose

transposeVars == <<tree_is_row, transpose_args>>

VARIABLES
    anchor_call      \* <<>>, or <<method, position, size, anchor, returned value>> of the
                     \* last Frame.anchor_y or Frame.anchor_x call

anchorVars == <<anchor_call>>

VARIABLES
    hexes_items,     \* hexes Column._rows or Row._cols: the height or width of each item
    hexes_call       \* <<>>, or <<class, size, outcome, sizes passed to the items>> of the
                     \* last Column.update or Row.update

hexesVars == <<hexes_items, hexes_call>>

vars == <<solverVars, itemVars, nodeVars, frameVars, cframeVars, layoutVars, treeVars,
          builderVars, styleVars, transposeVars, anchorVars, hexesVars>>

\* ------------------------------------------------------------ rationals
Rat(n, d) == <<n, d>>

RatOfInt(n) == <<n, 1>>

RatLess(a, b) == a[1] * b[2] < b[1] * a[2]

RatLeq(a, b) == a[1] * b[2] <= b[1] * a[2]

RatEq(a, b) == a[1] * b[2] = b[1] * a[2]

RatAdd(a, b) == IF a[2] = b[2] THEN <<a[1] + b[1], a[2]>>
                ELSE <<a[1] * b[2] + b[1] * a[2], a[2] * b[2]>>

RatIsInt(a) == a[1] % a[2] = 0

RECURSIVE RatSum(_)
RatSum(s) == IF s = <<>> THEN RatOfInt(0)
             ELSE RatAdd(RatSum(SubSeq(s, 1, Len(s) - 1)), s[Len(s)])

\* ------------------------------------------------------------ int | float | None
\* a declared size, bound or gap: <<type, numerator, denominator>>
NoneV == <<"None", 0, 1>>

IntV(n) == <<"int", n, 1>>

FloatV(n, d) == <<"float", n, d>>

\* int(): truncation towards zero of n / d, d > 0
int_trunc(n, d) == IF n >= 0 THEN n \div d ELSE 0 - ((0 - n) \div d)

\* benediction/_utils/math.py
to_abs(value, relative_to) ==
    IF value[1] = "float" THEN int_trunc(value[2] * relative_to, value[3])
    ELSE IF value[1] = "int" THEN value[2]
    ELSE None

clip(value, bs) ==
    IF bs[2] # None /\ value > bs[2] THEN bs[2]
    ELSE IF bs[1] # None /\ value < bs[1] THEN bs[1]
    ELSE value

NoSolver == [bounds |-> <<>>, table |-> <<>>, set |-> FALSE]

\* ------------------------------------------------------------ solver.py
\* a Bound is <<lower, upper>>: b[1] is Python's b[0], b[2] is Python's b[1]

\* sorted(..., key=itemgetter(0)) is stable: e goes after every element whose
\* value is not greater
RECURSIVE insert_sorted(_, _)
insert_sorted(e, s) ==
    IF s = <<>> THEN <<e>>
    ELSE IF s[Len(s)][1] <= e[1] THEN Append(s, e)
    ELSE Append(insert_sorted(e, SubSeq(s, 1, Len(s) - 1)), s[Len(s)])

RECURSIVE sorted(_)
sorted(s) == IF s = <<>> THEN <<>>
             ELSE insert_sorted(s[Len(s)], sorted(SubSeq(s, 1, Len(s) - 1)))

\* the bounds chained without the sort
flatten_bounds_unsorted(bs) ==
    LET lo == SelectSeq(bs, LAMBDA b : b[1] # None)
        up == SelectSeq(bs, LAMBDA b : b[2] # None)
        lower_bounds == [i \in 1..Len(lo) |-> <<lo[i][1], FALSE>>]
        upper_bounds == [i \in 1..Len(up) |-> <<up[i][2], TRUE>>]
    IN  lower_bounds \o upper_bounds

flatten_bounds(bs) ==
    LET lo == SelectSeq(bs, LAMBDA b : b[1] # None)
        up == SelectSeq(bs, LAMBDA b : b[2] # None)
        lower_bounds == [i \in 1..Len(lo) |-> <<lo[i][1], FALSE>>]
        upper_bounds == [i \in 1..Len(up) |-> <<up[i][2], TRUE>>]
    IN  sorted(lower_bounds \o upper_bounds)

\* a list of pairs in place of the dict: a present key gets a second entry
dict_set_append(d, k, v) == Append(d, <<k, v>>)

\* x_table[k] = v on an insertion-ordered dict: a present key keeps its place
dict_set(d, k, v) ==
    IF \E i \in 1..Len(d) : d[i][1] = k
    THEN [i \in 1..Len(d) |-> IF d[i][1] = k THEN <<k, v>> ELSE d[i]]
    ELSE Append(d, <<k, v>>)

initial_rate(bs, n) == Cardinality({i \in 1..Len(bs) : bs[i][1] = None}) + n

\* first loop of _solve_table: [rate, min_space_total, x_table] after flat[i..]
RECURSIVE x_table_loop(_, _, _, _, _)
x_table_loop(flat, i, rate, min_space_total, x_table) ==
    IF i > Len(flat) THEN [min_space_total |-> min_space_total, x_table |-> x_table]
    ELSE LET b == flat[i][1]
             is_upper == flat[i][2]
             rate2 == IF is_upper THEN rate - 1 ELSE rate + 1
             total2 == IF is_upper THEN min_space_total ELSE min_space_total + b
         IN  x_table_loop(flat, i + 1, rate2, total2, dict_set(x_table, b, rate2))

\* second loop of _solve_table: accumulates <<keys, values>>
RECURSIVE keys_loop(_, _, _, _, _, _, _)
keys_loop(x_table, i, min_space, prev_x, prev_rate, keys, values) ==
    IF i > Len(x_table) THEN <<keys, values>>
    ELSE LET xi == x_table[i][1]
             rate == x_table[i][2]
             min_space2 == min_space + (xi - prev_x) * prev_rate
         IN  keys_loop(x_table, i + 1, min_space2, xi, rate,
                       Append(keys, min_space2), Append(values, <<xi, rate>>))

solve_table(bs, n) ==
    LET rate == initial_rate(bs, n)
        t == x_table_loop(flatten_bounds(bs), 1, rate, 0, <<<<0, rate>>>>)
    IN  keys_loop(t.x_table, 1, t.min_space_total, 0, 0, <<>>, <<>>)

\* bisect.bisect (bisect_right) on 0-based positions lo..hi of a
RECURSIVE bisect_loop(_, _, _, _)
bisect_loop(a, v, lo, hi) ==
    IF lo < hi
    THEN LET mid == (lo + hi) \div 2
         IN  IF v < a[mid + 1] THEN bisect_loop(a, v, lo, mid)
             ELSE bisect_loop(a, v, mid + 1, hi)
    ELSE lo

\* bisect_left in place of bisect_right
RECURSIVE bisect_left_loop(_, _, _, _)
bisect_left_loop(a, v, lo, hi) ==
    IF lo < hi
    THEN LET mid == (lo + hi) \div 2
         IN  IF a[mid + 1] < v THEN bisect_left_loop(a, v, mid + 1, hi)
             ELSE bisect_left_loop(a, v, lo, mid)
    ELSE lo

bisect_left(a, v) == bisect_left_loop(a, v, 0, Len(a))

bisect(a, v) == bisect_loop(a, v, 0, Len(a))

\* _solve_x with dx = space / rate: the start of the region is not subtracted
solve_x_no_offset(t, s) ==
    LET keys == t[1]
        values == t[2]
        space_key == bisect(keys, s) - 1
    IN  IF space_key < 0 THEN [outcome |-> "ValueError", x |-> RatOfInt(0)]
        ELSE LET x0 == values[space_key + 1][1]
                 rate == values[space_key + 1][2]
             IN  IF rate = 0
                 THEN [outcome |-> "ZeroDivisionError", x |-> RatOfInt(0)]
                 ELSE IF rate > 0
                 THEN [outcome |-> "ok", x |-> Rat(x0 * rate + s, rate)]
                 ELSE [outcome |-> "ok", x |-> Rat(0 - (x0 * rate + s), 0 - rate)]

\* SpaceAllocator._solve_x: [outcome, x]
solve_x(t, s) ==
    LET keys == t[1]
        values == t[2]
        space_key == bisect(keys, s) - 1
    IN  IF space_key < 0 THEN [outcome |-> "ValueError", x |-> RatOfInt(0)]
        ELSE LET x0 == values[space_key + 1][1]
                 rate == values[space_key + 1][2]
                 min_space == keys[space_key + 1]
             IN  IF rate = 0
                 THEN [outcome |-> "ZeroDivisionError", x |-> RatOfInt(0)]
                 ELSE IF rate > 0
                 THEN [outcome |-> "ok", x |-> Rat(x0 * rate + (s - min_space), rate)]
                 ELSE [outcome |-> "ok", x |-> Rat(0 - (x0 * rate + (s - min_space)), 0 - rate)]

\* the element without the clip to the upper bound
evaluate_bound_no_upper(b, xv) ==
    IF b[1] # None /\ RatLess(xv, RatOfInt(b[1])) THEN RatOfInt(b[1])
    ELSE xv

\* one element of the generator in SpaceAllocator.evaluate
evaluate_bound(b, xv) ==
    IF b[1] # None /\ RatLess(xv, RatOfInt(b[1])) THEN RatOfInt(b[1])
    ELSE IF b[2] # None /\ RatLess(RatOfInt(b[2]), xv) THEN RatOfInt(b[2])
    ELSE xv

\* evaluate with the unconstrained items truncated to integers
evaluate_truncated(bs, n, xv) ==
    [i \in 1..Len(bs) |-> evaluate_bound(bs[i], xv)]
        \o [i \in 1..n |-> RatOfInt(int_trunc(xv[1], xv[2]))]

\* evaluate with the unconstrained items chained first
evaluate_swapped(bs, n, xv) ==
    [i \in 1..n |-> xv] \o [i \in 1..Len(bs) |-> evaluate_bound(bs[i], xv)]

\* SpaceAllocator.evaluate
evaluate(bs, n, xv) ==
    [i \in 1..Len(bs) |-> evaluate_bound(bs[i], xv)] \o [i \in 1..n |-> xv]

\* ------------------------------------------------------------ Spec
Values == 1..MaxBound

BoundPairs == {<<l, u>> : l \in Values \cup {None}, u \in Values \cup {None}} \ {<<None, None>>}

ValidBound(b) == b[1] # None /\ b[2] # None => b[1] < b[2]

ValidBounds == {b \in BoundPairs : ValidBound(b)}

\* the order in which bound sets of more than two items are listed
BoundLeq(a, b) == a[1] < b[1] \/ (a[1] = b[1] /\ a[2] <= b[2])

\* the bound sets: up to two items in every order, more items in one order
BoundTuples ==
    {bs \in UNION {[1..k -> ValidBounds] : k \in 0..MaxBounded} :
        Len(bs) > 2 => \A i \in 1..(Len(bs) - 1) : BoundLeq(bs[i], bs[i + 1])}

\* the bounds and n_unconstrained of scenarios A and B
Scenarios == {<<<<>>, 3>>, <<<<<<2, 5>>>>, 1>>}

ScenarioSpaces == {4, 10}

Spaces == ((0 - 1)..MaxSpace) \cup ScenarioSpaces

\* no LayoutItem
ItemIdle ==
    /\ items = <<>>
    /\ items_space = 0
    /\ item_outcome = "none"
    /\ item_result = <<>>

\* no LayoutNode
NodeIdle ==
    /\ is_row = TRUE
    /\ gap = IntV(0)
    /\ children = <<>>
    /\ node_solver = NoSolver
    /\ node_built = FALSE
    /\ node_space = 0
    /\ node_outcome = "none"
    /\ node_result = <<>>

\* Frame(): no dimensions assigned (None as a number), paddings 0
NewFrame == [top |-> <<None, 1>>, left |-> <<None, 1>>, height |-> <<None, 1>>,
             width |-> <<None, 1>>,
             padding_top |-> 0, padding_bottom |-> 0, padding_left |-> 0, padding_right |-> 0]

\* no Frame of its own
FrameIdle ==
    /\ frame = <<>>
    /\ frame_args = <<>>
    /\ frame_outcome = "none"

\* ConstrainedFrame(): no constraints, margins and paddings 0
NewCFrame == [height |-> NoneV, height_min |-> NoneV, height_max |-> NoneV,
              width |-> NoneV, width_min |-> NoneV, width_max |-> NoneV,
              margin_top |-> IntV(0), margin_bottom |-> IntV(0),
              margin_left |-> IntV(0), margin_right |-> IntV(0),
              padding_top |-> IntV(0), padding_bottom |-> IntV(0),
              padding_left |-> IntV(0), padding_right |-> IntV(0)]

\* no ConstrainedFrame of its own
CFrameIdle ==
    /\ cframe_decl = <<>>
    /\ cframe_outcome = "none"
    /\ cframe_args = <<>>
    /\ cframe_call = "none"
    /\ cframe_returned = <<>>

\* no SpaceAllocator of its own
SolverIdle ==
    /\ bounds = <<>>
    /\ n_unconstrained = 0
    /\ table = <<<<>>, <<>>>>
    /\ space = 0
    /\ outcome = "none"
    /\ x = RatOfInt(0)
    /\ result = <<>>

\* no update_frame call on a LayoutNode
LayoutIdle ==
    /\ node_cframe = <<>>
    /\ node_frame = <<>>
    /\ child_frames = <<>>
    /\ handed = <<>>
    /\ update_args = <<>>
    /\ update_outcome = "none"

NodeIds == 1..MaxNodes

\* no Node constructed
TreeIdle ==
    /\ tree_nodes = {}
    /\ tree_parent = <<>>
    /\ tree_children = <<>>
    /\ tree_call = "none"
    /\ tree_outcome = "none"

\* Layout() without a call
BuilderIdle ==
    /\ layout_kwargs = <<>>
    /\ layout_node = "None"
    /\ layout_call = "none"
    /\ layout_outcome = "none"

StyledIds == 1..MaxStyled

\* no styled tree
StyleIdle ==
    /\ styled_parent = <<>>
    /\ base_style = <<>>
    /\ style_kwargs = <<>>
    /\ cached_style = <<>>
    /\ style_call = <<>>
    /\ style_outcome = "none"

\* no transpose call
TransposeIdle ==
    /\ tree_is_row = <<>>
    /\ transpose_args = <<>>

\* no anchor_y or anchor_x call
AnchorIdle == anchor_call = <<>>

\* no hexes Column or Row
HexesIdle ==
    /\ hexes_items = <<>>
    /\ hexes_call = <<>>

\* the objects a specification does not construct
exceptSolver == <<itemVars, nodeVars, frameVars, cframeVars, layoutVars, treeVars, builderVars,
      styleVars,
      transposeVars,
      anchorVars,
      hexesVars>>

exceptItem == <<solverVars, nodeVars, frameVars, cframeVars, layoutVars, treeVars, builderVars,
      styleVars,
      transposeVars,
      anchorVars,
      hexesVars>>

exceptNode == <<solverVars, itemVars, frameVars, cframeVars, layoutVars, treeVars, builderVars,
      styleVars,
      transposeVars,
      anchorVars,
      hexesVars>>

exceptFrame == <<solverVars, itemVars, nodeVars, cframeVars, layoutVars, treeVars, builderVars,
      styleVars,
      transposeVars,
      anchorVars,
      hexesVars>>

exceptCFrame ==
    <<solverVars, itemVars, nodeVars, frame_args, frame_outcome, layoutVars, treeVars,
      builderVars, styleVars,
      transposeVars,
      anchorVars,
      hexesVars>>

exceptLayout == <<solverVars, itemVars, frameVars, cframeVars, treeVars, builderVars,
      styleVars,
      transposeVars,
      anchorVars,
      hexesVars>>

exceptTree ==
    <<solverVars, itemVars, nodeVars, frameVars, cframeVars, layoutVars, builderVars,
      styleVars,
      transposeVars,
      anchorVars,
      hexesVars>>

exceptBuilder ==
    <<solverVars, itemVars, nodeVars, frameVars, cframeVars, layoutVars, treeVars,
      styleVars,
      transposeVars,
      anchorVars,
      hexesVars>>

exceptTranspose ==
    <<solverVars, itemVars, nodeVars, frameVars, cframeVars, layoutVars, builderVars,
      styleVars,
      anchorVars,
      hexesVars>>

exceptAnchor ==
    <<solverVars, itemVars, nodeVars, frameVars, cframeVars, layoutVars, treeVars,
      builderVars, styleVars, transposeVars,
      hexesVars>>

exceptHexes ==
    <<solverVars, itemVars, nodeVars, frameVars, cframeVars, layoutVars, treeVars,
      builderVars, styleVars, transposeVars, anchorVars>>

exceptStyle ==
    <<solverVars, itemVars, nodeVars, frameVars, cframeVars, layoutVars, treeVars,
      builderVars,
      transposeVars,
      anchorVars,
      hexesVars>>

IdleExceptSolver ==
    ItemIdle /\ NodeIdle /\ FrameIdle /\ CFrameIdle /\ LayoutIdle /\ TreeIdle /\ BuilderIdle /\ StyleIdle /\ TransposeIdle /\ AnchorIdle /\ HexesIdle

IdleExceptItem ==
    SolverIdle /\ NodeIdle /\ FrameIdle /\ CFrameIdle /\ LayoutIdle /\ TreeIdle /\ BuilderIdle /\ StyleIdle /\ TransposeIdle /\ AnchorIdle /\ HexesIdle

IdleExceptNode ==
    SolverIdle /\ ItemIdle /\ FrameIdle /\ CFrameIdle /\ LayoutIdle /\ TreeIdle /\ BuilderIdle /\ StyleIdle /\ TransposeIdle /\ AnchorIdle /\ HexesIdle

IdleExceptFrame ==
    SolverIdle /\ ItemIdle /\ NodeIdle /\ CFrameIdle /\ LayoutIdle /\ TreeIdle /\ BuilderIdle /\ StyleIdle /\ TransposeIdle /\ AnchorIdle /\ HexesIdle

IdleExceptCFrame ==
    /\ SolverIdle /\ ItemIdle /\ NodeIdle /\ LayoutIdle /\ TreeIdle /\ BuilderIdle /\ StyleIdle
    /\ frame_args = <<>>
    /\ frame_outcome = "none" /\ TransposeIdle /\ AnchorIdle /\ HexesIdle

IdleExceptLayout == SolverIdle /\ ItemIdle /\ FrameIdle /\ CFrameIdle /\ TreeIdle /\ BuilderIdle /\ StyleIdle /\ TransposeIdle /\ AnchorIdle /\ HexesIdle

IdleExceptTree ==
    /\ SolverIdle /\ ItemIdle /\ NodeIdle /\ FrameIdle /\ CFrameIdle /\ LayoutIdle
    /\ BuilderIdle /\ StyleIdle /\ TransposeIdle /\ AnchorIdle /\ HexesIdle

IdleExceptBuilder ==
    /\ SolverIdle /\ ItemIdle /\ NodeIdle /\ FrameIdle /\ CFrameIdle /\ LayoutIdle
    /\ TreeIdle /\ StyleIdle /\ TransposeIdle /\ AnchorIdle /\ HexesIdle

IdleExceptStyle ==
    /\ SolverIdle /\ ItemIdle /\ NodeIdle /\ FrameIdle /\ CFrameIdle /\ LayoutIdle
    /\ TreeIdle /\ BuilderIdle /\ TransposeIdle /\ AnchorIdle /\ HexesIdle

IdleExceptTranspose ==
    /\ SolverIdle /\ ItemIdle /\ NodeIdle /\ FrameIdle /\ CFrameIdle /\ LayoutIdle
    /\ BuilderIdle /\ StyleIdle /\ AnchorIdle /\ HexesIdle

IdleExceptAnchor ==
    /\ SolverIdle /\ ItemIdle /\ NodeIdle /\ FrameIdle /\ CFrameIdle /\ LayoutIdle
    /\ TreeIdle /\ BuilderIdle /\ StyleIdle /\ TransposeIdle /\ HexesIdle

IdleExceptHexes ==
    /\ SolverIdle /\ ItemIdle /\ NodeIdle /\ FrameIdle /\ CFrameIdle /\ LayoutIdle
    /\ TreeIdle /\ BuilderIdle /\ StyleIdle /\ TransposeIdle /\ AnchorIdle

\* SpaceAllocator.__init__
Init ==
    /\ \E args \in (BoundTuples \X (0..MaxUnconstrained)) \cup Scenarios :
           /\ bounds = args[1]
           /\ n_unconstrained = args[2]
    /\ table = solve_table(bounds, n_unconstrained)
    /\ space = 0
    /\ outcome = "none"
    /\ x = RatOfInt(0)
    /\ result = <<>>
    /\ IdleExceptSolver

\* solve that drops the regions of the table below the one it found
solve_trimming(s) ==
    /\ \E r \in {solve_x(table, s)} :
           /\ outcome' = r.outcome
           /\ x' = r.x
           /\ result' = IF r.outcome = "ok" THEN evaluate(bounds, n_unconstrained, r.x)
                        ELSE <<>>
           /\ table' = IF r.outcome = "ok"
                        THEN LET k == bisect(table[1], s)
                             IN  <<SubSeq(table[1], k, Len(table[1])),
                                   SubSeq(table[2], k, Len(table[2]))>>
                        ELSE table
    /\ space' = s
    /\ UNCHANGED <<bounds, n_unconstrained, exceptSolver>>

\* SpaceAllocator.solve
solve(s) ==
    /\ \E r \in {solve_x(table, s)} :
           /\ outcome' = r.outcome
           /\ x' = r.x
           /\ result' = IF r.outcome = "ok" THEN evaluate(bounds, n_unconstrained, r.x)
                        ELSE <<>>
    /\ space' = s
    /\ UNCHANGED <<bounds, n_unconstrained, table, exceptSolver>>

Next == \E s \in Spaces : solve(s)

Spec == Init /\ [][Next]_vars

\* ------------------------------------------------------------ benediction/layout.py
\* an item is [size, size_min, size_max]: _space, _space_min, _space_max

\* LayoutItem._clip
item_clip(item, v) ==
    IF item.size_min # None /\ v < item.size_min THEN item.size_min
    ELSE IF item.size_max # None /\ v > item.size_max THEN item.size_max
    ELSE v

\* LayoutItem.__post_init__: the declarations that do not raise LayoutError
item_valid(item) ==
    IF item.size[1] = "int"
    THEN item.size_min = None /\ item.size_max = None
    ELSE ~(item.size_min # None /\ item.size_max # None /\ item.size_min >= item.size_max)

\* first loop of LayoutItem._allocate_space, from item idx on
RECURSIVE item_loop(_, _, _, _, _, _)
item_loop(its, sp, idx, idx_to_space, allocated_space, implicit_items) ==
    IF idx > Len(its)
    THEN [idx_to_space |-> idx_to_space, allocated_space |-> allocated_space,
          implicit_items |-> implicit_items]
    ELSE LET item == its[idx]
         IN  IF item.size = NoneV
             THEN item_loop(its, sp, idx + 1, idx_to_space, allocated_space,
                            Append(implicit_items, idx))
             ELSE LET v == IF item.size[1] = "int" THEN item.size[2]
                           ELSE item_clip(item, int_trunc(item.size[2] * sp, item.size[3]))
                  IN  item_loop(its, sp, idx + 1, idx_to_space @@ (idx :> RatOfInt(v)),
                                allocated_space + v, implicit_items)

\* the pairing of the solver's tuple with the implicit items
pair_implicit(implicit_items, implicit_items_space) ==
    [i \in 1..Len(implicit_items) |-> <<implicit_items[i], implicit_items_space[i]>>]

\* LayoutItem._allocate_space: [outcome, result]
item_allocate(its, sp) ==
    LET l == item_loop(its, sp, 1, <<>>, 0, <<>>)
        implicit_items == l.implicit_items
    IN  IF implicit_items = <<>>
        THEN [outcome |-> "ok", result |-> [i \in 1..Len(its) |-> l.idx_to_space[i]]]
        ELSE LET bounded == SelectSeq(implicit_items,
                     LAMBDA i : ~(its[i].size_min = None /\ its[i].size_max = None))
                 bs == [k \in 1..Len(bounded) |->
                           <<its[bounded[k]].size_min, its[bounded[k]].size_max>>]
                 n_implicit_unconstrained == Len(implicit_items) - Len(bs)
                 remaining_space == sp - l.allocated_space
                 r == solve_x(solve_table(bs, n_implicit_unconstrained), remaining_space)
             IN  IF r.outcome # "ok" THEN [outcome |-> r.outcome, result |-> <<>>]
                 ELSE LET pairs == pair_implicit(implicit_items,
                                       evaluate(bs, n_implicit_unconstrained, r.x))
                          d == [i \in 1..Len(its) |->
                                   IF i \in DOMAIN l.idx_to_space THEN l.idx_to_space[i]
                                   ELSE LET k == CHOOSE k \in 1..Len(pairs) : pairs[k][1] = i
                                        IN  pairs[k][2]]
                      IN  [outcome |-> "ok", result |-> d]

\* ------------------------------------------------------------ SpecItem
ItemBoundValues == (1..MaxItemBound) \cup {None}

ItemSizes == {NoneV} \cup {IntV(n) : n \in 1..MaxItemFixed} \cup {FloatV(1, 2)}

ItemDecls == {it \in [size : ItemSizes, size_min : ItemBoundValues, size_max : ItemBoundValues] :
                 item_valid(it)}

ItemTuples == UNION {[1..k -> ItemDecls] : k \in 1..MaxItems}

ItemSpaces == 0..MaxSpace

\* a Row or Column with its nested items
InitItem ==
    /\ items \in ItemTuples
    /\ items_space = 0
    /\ item_outcome = "none"
    /\ item_result = <<>>
    /\ IdleExceptItem

\* LayoutItem._allocate_space
allocate_space_item(sp) ==
    /\ \E r \in {item_allocate(items, sp)} :
           /\ item_outcome' = r.outcome
           /\ item_result' = r.result
    /\ items_space' = sp
    /\ UNCHANGED <<items, exceptItem>>

NextItem == \E sp \in ItemSpaces : allocate_space_item(sp)

SpecItem == InitItem /\ [][NextItem]_vars

\* ------------------------------------------------------------ core/frame.py: Frame
\* the positions and sizes of a Frame are numbers <<numerator, denominator>>
\* (LayoutNode hands the solver's floats to it), its paddings are integers

\* the paddings may add up to the size
padding_exceeds_strictly(padding_a, padding_b, size) ==
    RatLess(size, RatOfInt(padding_a + padding_b))

\* padding_top + padding_bottom >= height
padding_exceeds(padding_a, padding_b, size) ==
    RatLeq(size, RatOfInt(padding_a + padding_b))

\* Frame.set_dimensions: [outcome, frame]
Frame_set_dimensions(fr, top, left, height, width, p_top, p_bottom, p_left, p_right) ==
    IF \/ RatLess(top, RatOfInt(0))
       \/ RatLess(left, RatOfInt(0))
       \/ RatLeq(height, RatOfInt(0))
       \/ RatLeq(width, RatOfInt(0))
       \/ padding_exceeds(p_top, p_bottom, height)
       \/ padding_exceeds(p_left, p_right, width)
    THEN [outcome |-> "FrameError", frame |-> fr]
    ELSE [outcome |-> "ok",
          frame |-> [top |-> top, left |-> left, height |-> height, width |-> width,
                     padding_top |-> p_top, padding_bottom |-> p_bottom,
                     padding_left |-> p_left, padding_right |-> p_right]]

\* Frame.is_ready
is_ready(fr) == fr.width # <<None, 1>>

\* ------------------------------------------------------------ core/frame.py: anchors
\* Python's // : the floor of a / b for b > 0
floordiv(a, b) == IF a >= 0 THEN a \div b ELSE 0 - ((0 - a + b - 1) \div b)

\* the shifts with a division that truncates towards zero
XANCHOR_truncating(anchor, width) ==
    IF anchor = "left" THEN 0
    ELSE IF anchor = "center" THEN int_trunc(1 - width, 2)
    ELSE 1 - width

\* _XANCHOR[anchor](width)
XANCHOR(anchor, width) ==
    IF anchor = "left" THEN 0
    ELSE IF anchor = "center" THEN floordiv(1 - width, 2)
    ELSE 1 - width

\* _YANCHOR[anchor](height)
YANCHOR(anchor, height) ==
    IF anchor = "top" THEN 0
    ELSE IF anchor = "middle" THEN floordiv(1 - height, 2)
    ELSE 1 - height

\* ------------------------------------------------------------ SpecAnchor
AnchorPositions == (0 - 1)..MaxAnchorPos

AnchorSizes == 1..MaxAnchorSize

InitAnchor == anchor_call = <<>> /\ IdleExceptAnchor

\* Frame.anchor_y(y, height, anchor)
anchor_y(y, height, anchor) ==
    /\ anchor_call' = <<"anchor_y", y, height, anchor, y + YANCHOR(anchor, height)>>
    /\ UNCHANGED exceptAnchor

\* Frame.anchor_x(x, width, anchor)
anchor_x(xpos, width, anchor) ==
    /\ anchor_call' = <<"anchor_x", xpos, width, anchor, xpos + XANCHOR(anchor, width)>>
    /\ UNCHANGED exceptAnchor

NextAnchor ==
    \/ \E y \in AnchorPositions : \E height \in AnchorSizes :
           \E anchor \in {"top", "middle", "bottom"} : anchor_y(y, height, anchor)
    \/ \E xpos \in AnchorPositions : \E width \in AnchorSizes :
           \E anchor \in {"left", "center", "right"} : anchor_x(xpos, width, anchor)

SpecAnchor == InitAnchor /\ [][NextAnchor]_vars

\* ------------------------------------------------------------ hexes/layout.py
\* Python's round(n / d) for d > 0: halves go to the even neighbour
round(n, d) ==
    LET f == floordiv(n, d)
        rest == n - f * d
    IN  IF 2 * rest < d THEN f
        ELSE IF 2 * rest > d THEN f + 1
        ELSE IF f % 2 = 0 THEN f ELSE f + 1

\* sum(item.size if isinstance(item.size, int) else 0 ...)
RECURSIVE fixed_sum(_)
fixed_sum(its) ==
    IF its = <<>> THEN 0
    ELSE fixed_sum(SubSeq(its, 1, Len(its) - 1))
         + (IF its[Len(its)][1] = "int" THEN its[Len(its)][2] ELSE 0)

\* explicit_ratio: sum(item.size if isinstance(item.size, float) else 0.0 ...)
RECURSIVE explicit_sum(_)
explicit_sum(its) ==
    IF its = <<>> THEN RatOfInt(0)
    ELSE RatAdd(explicit_sum(SubSeq(its, 1, Len(its) - 1)),
                IF its[Len(its)][1] = "float" THEN Rat(its[Len(its)][2], its[Len(its)][3])
                ELSE RatOfInt(0))

\* the loop over the items of Column.update / Row.update from item i on; the update
\* of an item without items, margins and window raises when its size is negative
RECURSIVE hexes_loop(_, _, _, _, _, _, _, _)
hexes_loop(its, dynamic, implicit_ratio, n_dynamic, i, remaining, allocated, sizes) ==
    IF i > Len(its) THEN [outcome |-> "ok", sizes |-> sizes]
    ELSE LET is_int == its[i][1] = "int"
             last == allocated = n_dynamic - 1
             ratio == IF its[i] = NoneV THEN implicit_ratio ELSE Rat(its[i][2], its[i][3])
             item_size == IF is_int THEN its[i][2]
                          ELSE IF last THEN remaining
                          ELSE round(dynamic * ratio[1], ratio[2])
         IN  IF item_size < 0
             THEN [outcome |-> "InsufficientSpaceError", sizes |-> Append(sizes, item_size)]
             ELSE hexes_loop(its, dynamic, implicit_ratio, n_dynamic, i + 1,
                             IF is_int \/ last THEN remaining ELSE remaining - item_size,
                             IF is_int THEN allocated ELSE allocated + 1,
                             Append(sizes, item_size))

\* if dynamic_height < n_dynamic_rows
too_small(dynamic, n_dynamic) == dynamic < n_dynamic

\* Column.update / Row.update of an item without margins and window, along the
\* axis it divides: [outcome, sizes]
hexes_update(its, size) ==
    LET dynamic == size - fixed_sum(its)
        n_implicit == Cardinality({i \in 1..Len(its) : its[i] = NoneV})
        n_dynamic == Cardinality({i \in 1..Len(its) : its[i][1] # "int"})
        explicit_ratio == explicit_sum(its)
        implicit_ratio == IF n_implicit > 0
                          THEN Rat(explicit_ratio[2] - explicit_ratio[1],
                                   explicit_ratio[2] * n_implicit)
                          ELSE RatOfInt(0)
    IN  IF ~(RatLeq(RatOfInt(0), explicit_ratio) /\ RatLeq(explicit_ratio, RatOfInt(1)))
        THEN [outcome |-> "InsufficientSpaceError", sizes |-> <<>>]
        ELSE IF too_small(dynamic, n_dynamic)
        THEN [outcome |-> "InsufficientSpaceError", sizes |-> <<>>]
        ELSE hexes_loop(its, dynamic, implicit_ratio, n_dynamic, 1, dynamic, 0, <<>>)

\* ------------------------------------------------------------ SpecHexes
HexesSizes == {NoneV, IntV(1), FloatV(1, 4), FloatV(1, 2)}

HexesSpaces == 0..MaxHexesSpace

\* a Column with rows or a Row with columns, added by row() or col()
InitHexes ==
    /\ hexes_items \in UNION {[1..k -> HexesSizes] : k \in 1..MaxHexesItems}
    /\ hexes_call = <<>>
    /\ IdleExceptHexes

\* Column.update(0, 0, 1, height)
Column_update(height) ==
    /\ \E r \in {hexes_update(hexes_items, height)} :
           hexes_call' = <<"Column", height, r.outcome, r.sizes>>
    /\ UNCHANGED <<hexes_items, exceptHexes>>

\* Row.update(0, 0, width, 1)
Row_update(width) ==
    /\ \E r \in {hexes_update(hexes_items, width)} :
           hexes_call' = <<"Row", width, r.outcome, r.sizes>>
    /\ UNCHANGED <<hexes_items, exceptHexes>>

NextHexes ==
    \/ \E height \in HexesSpaces : Column_update(height)
    \/ \E width \in HexesSpaces : Row_update(width)

SpecHexes == InitHexes /\ [][NextHexes]_vars

\* ------------------------------------------------------------ SpecFrame
\* (padding_top, padding_bottom, padding_left, padding_right)
PadTuples == {<<0, 0, 0, 0>>, <<1, 0, 0, 0>>, <<0, 1, 0, 0>>, <<1, 1, 0, 0>>,
              <<0, 0, 1, 0>>, <<0, 0, 0, 1>>, <<0, 0, 1, 1>>}

\* (top, left, height, width) followed by the paddings
FrameArgs == {<<t, l, h, w>> \o pd : t \in {0 - 1, 0}, l \in {0 - 1, 0},
                  h \in 0..MaxDim, w \in 0..MaxDim, pd \in PadTuples}

\* Frame()
InitFrame ==
    /\ frame = NewFrame
    /\ frame_args = <<>>
    /\ frame_outcome = "none"
    /\ IdleExceptFrame

\* Frame.set_dimensions
set_dimensions(a) ==
    /\ \E r \in {Frame_set_dimensions(frame, RatOfInt(a[1]), RatOfInt(a[2]), RatOfInt(a[3]),
                                       RatOfInt(a[4]), a[5], a[6], a[7], a[8])} :
           /\ frame_outcome' = r.outcome
           /\ frame' = r.frame
    /\ frame_args' = a
    /\ UNCHANGED exceptFrame

NextFrame == \E a \in FrameArgs : set_dimensions(a)

SpecFrame == InitFrame /\ [][NextFrame]_vars

\* ------------------------------------------------------------ core/frame.py
\* a ConstrainedFrame is [height, height_min, height_max, width, width_min,
\* width_max], each an int | float | None

\* the value of a declared int or float as a rational
ValueOf(v) == Rat(v[2], v[3])

\* the bounds compared with x_min > x_max: equal bounds are accepted
attr_valid_equal_bounds(xa, x_min, x_max) ==
    /\ ~(xa # NoneV /\ xa[2] <= 0)
    /\ ~((x_min # NoneV /\ x_min[2] <= 0) \/ (x_max # NoneV /\ x_max[2] <= 0))
    /\ ~(xa[1] = "int" /\ ~(x_min = NoneV /\ x_max = NoneV))
    /\ ~(xa[1] = "float" /\ (x_min[1] = "float" \/ x_max[1] = "float"))
    /\ ~((x_min[1] = "float" /\ RatLess(RatOfInt(1), ValueOf(x_min)))
          \/ (x_max[1] = "float" /\ RatLess(RatOfInt(1), ValueOf(x_max))))
    /\ ~(x_min # NoneV /\ x_max # NoneV /\ RatLess(ValueOf(x_max), ValueOf(x_min)))

\* ConstrainedFrame.__post_init__ for one of the attrs: TRUE when it does not raise
attr_valid(xa, x_min, x_max) ==
    /\ ~(xa # NoneV /\ xa[2] <= 0)
    /\ ~((x_min # NoneV /\ x_min[2] <= 0) \/ (x_max # NoneV /\ x_max[2] <= 0))
    /\ ~(xa[1] = "int" /\ ~(x_min = NoneV /\ x_max = NoneV))
    /\ ~(xa[1] = "float" /\ (x_min[1] = "float" \/ x_max[1] = "float"))
    /\ ~((x_min[1] = "float" /\ RatLess(RatOfInt(1), ValueOf(x_min)))
          \/ (x_max[1] = "float" /\ RatLess(RatOfInt(1), ValueOf(x_max))))
    /\ ~(x_min # NoneV /\ x_max # NoneV /\ RatLeq(ValueOf(x_max), ValueOf(x_min)))

cframe_valid(c) ==
    /\ attr_valid(c.width, c.width_min, c.width_max)
    /\ attr_valid(c.height, c.height_min, c.height_max)

\* ConstrainedFrame.height_bounds
height_bounds(c, height_outer) ==
    <<to_abs(c.height_min, height_outer), to_abs(c.height_max, height_outer)>>

\* ConstrainedFrame.width_bounds
width_bounds(c, width_outer) ==
    <<to_abs(c.width_min, width_outer), to_abs(c.width_max, width_outer)>>

\* ConstrainedFrame.margins: (top, bottom, left, right)
margins(c, height_outer, width_outer) ==
    <<to_abs(c.margin_top, height_outer), to_abs(c.margin_bottom, height_outer),
      to_abs(c.margin_left, width_outer), to_abs(c.margin_right, width_outer)>>

\* the margins subtracted from the positions as well
dimensions_shrunk(c, top, left, height, width, height_outer, width_outer) ==
    LET m == margins(c, height_outer, width_outer)
    IN  <<RatAdd(top, RatOfInt(0 - m[1])), RatAdd(left, RatOfInt(0 - m[3])),
          RatAdd(height, RatOfInt(0 - (m[1] + m[2]))),
          RatAdd(width, RatOfInt(0 - (m[3] + m[4])))>>

\* ConstrainedFrame.dimensions: post-margined (top, left, height, width)
dimensions(c, top, left, height, width, height_outer, width_outer) ==
    LET m == margins(c, height_outer, width_outer)
    IN  <<RatAdd(top, RatOfInt(m[1])), RatAdd(left, RatOfInt(m[3])),
          RatAdd(height, RatOfInt(0 - (m[1] + m[2]))),
          RatAdd(width, RatOfInt(0 - (m[3] + m[4])))>>

\* ConstrainedFrame.padding: (top, bottom, left, right)
padding(c, height_outer, width_outer) ==
    <<to_abs(c.padding_top, height_outer), to_abs(c.padding_bottom, height_outer),
      to_abs(c.padding_left, width_outer), to_abs(c.padding_right, width_outer)>>

\* the size differs from an exact size declared without bounds
violates_exact(xa, x_min, x_max, size, outer) ==
    /\ xa # NoneV
    /\ x_min = NoneV /\ x_max = NoneV
    /\ ~RatEq(size, RatOfInt(to_abs(xa, outer)))

\* the size lies outside the normalized bounds
violates_bounds(bs, size) ==
    \/ bs[1] # None /\ RatLess(size, RatOfInt(bs[1]))
    \/ bs[2] # None /\ RatLess(RatOfInt(bs[2]), size)

\* ConstrainedFrame.set_dimensions: [outcome, frame, returned]
cframe_set_dimensions(c, fr, top, left, height, width, height_outer, width_outer) ==
    IF \/ violates_exact(c.height, c.height_min, c.height_max, height, height_outer)
       \/ violates_exact(c.width, c.width_min, c.width_max, width, width_outer)
       \/ violates_bounds(height_bounds(c, height_outer), height)
       \/ violates_bounds(width_bounds(c, width_outer), width)
    THEN [outcome |-> "FrameConstraintError", frame |-> fr, returned |-> <<>>]
    ELSE LET d == dimensions(c, top, left, height, width, height_outer, width_outer)
             pd == padding(c, height_outer, width_outer)
             r == Frame_set_dimensions(fr, d[1], d[2], d[3], d[4],
                                       pd[1], pd[2], pd[3], pd[4])
         IN  [outcome |-> r.outcome, frame |-> r.frame,
              returned |-> IF r.outcome = "ok" THEN d ELSE <<>>]

\* ------------------------------------------------------------ SpecCFrame
\* the declarations of one axis, valid or not: <<size, min, max>>
AllAxisDecls == {NoneV, IntV(1), IntV(MaxDim), FloatV(1, 2)}
                    \X {NoneV, IntV(1), IntV(MaxDim), FloatV(1, 2)}
                    \X {NoneV, IntV(1), IntV(MaxDim), FloatV(1, 2)}

Unconstrained == <<NoneV, NoneV, NoneV>>

\* (margin_top, margin_bottom, margin_left, margin_right)
MarginTuples == {<<0, 0, 0, 0>>, <<1, 0, 0, 0>>, <<0, 0, 1, 1>>}

\* ConstrainedFrame(height=.., .., margin_right=..)
CFrameOf(dh, dw, m) ==
    [NewCFrame EXCEPT !.height = dh[1], !.height_min = dh[2], !.height_max = dh[3],
                      !.width = dw[1], !.width_min = dw[2], !.width_max = dw[3],
                      !.margin_top = IntV(m[1]), !.margin_bottom = IntV(m[2]),
                      !.margin_left = IntV(m[3]), !.margin_right = IntV(m[4])]

\* one axis is constrained at a time
CFrameDecls ==
    {CFrameOf(d, Unconstrained, m) : d \in AllAxisDecls, m \in MarginTuples}
        \cup {CFrameOf(Unconstrained, d, m) : d \in AllAxisDecls, m \in MarginTuples}

\* (top, left, height, width, height_outer, width_outer)
CFrameArgs == {<<p[1], p[2], h, w, MaxDim + 1, MaxDim + 1>> :
                  p \in {<<0, 0>>, <<1, 2>>}, h \in 0..MaxDim, w \in 0..MaxDim}

\* the keyword arguments are chosen, the constructor has not run
InitCFrame ==
    /\ cframe_decl \in CFrameDecls
    /\ cframe_outcome = "none"
    /\ cframe_args = <<>>
    /\ cframe_call = "none"
    /\ cframe_returned = <<>>
    /\ frame = NewFrame
    /\ IdleExceptCFrame

\* ConstrainedFrame(**cframe_decl): __post_init__
construct ==
    /\ cframe_outcome = "none"
    /\ cframe_outcome' = IF cframe_valid(cframe_decl) THEN "ok" ELSE "FrameConstraintError"
    /\ UNCHANGED <<cframe_decl, cframe_args, cframe_call, cframe_returned, frame,
                   exceptCFrame>>

\* ConstrainedFrame.set_dimensions
cframe_set(a) ==
    /\ cframe_outcome = "ok"
    /\ \E r \in {cframe_set_dimensions(cframe_decl, frame, RatOfInt(a[1]), RatOfInt(a[2]),
                                        RatOfInt(a[3]), RatOfInt(a[4]), a[5], a[6])} :
           /\ cframe_call' = r.outcome
           /\ cframe_returned' = r.returned
           /\ frame' = r.frame
    /\ cframe_args' = a
    /\ UNCHANGED <<cframe_decl, cframe_outcome, exceptCFrame>>

NextCFrame ==
    \/ construct
    \/ \E a \in CFrameArgs : cframe_set(a)

SpecCFrame == InitCFrame /\ [][NextCFrame]_vars

\* ------------------------------------------------------------ core/node/layout/solver.py
\* SpaceAllocator(bounds): the allocator of the layout nodes takes the bounds of
\* all implicit items, (None, None) included, and has no n_unconstrained
node_SpaceAllocator(bs) == [bounds |-> bs, table |-> solve_table(bs, 0), set |-> TRUE]

\* SpaceAllocator.solve of the layout nodes: [outcome, result]
node_solve(solver, sp) ==
    LET r == solve_x(solver.table, sp)
    IN  IF r.outcome = "ok"
        THEN [outcome |-> "ok", result |-> evaluate(solver.bounds, 0, r.x)]
        ELSE [outcome |-> r.outcome, result |-> <<>>]

\* ------------------------------------------------------------ core/node/layout/layout.py
\* the comparison off by one
exceeds_space_by_two(allocated_space, sp) == allocated_space > sp + 1

\* if allocated_space > space
exceeds_space(allocated_space, sp) == allocated_space > sp

\* item_space < 0
negative(item_space) == RatLess(item_space, RatOfInt(0))

\* item_space <= 0
non_positive(item_space) == RatLeq(item_space, RatOfInt(0))

\* first loop of LayoutNode._allocate_space, from child idx on
RECURSIVE node_loop(_, _, _, _, _, _, _)
node_loop(ch, row, sp, idx, idx_to_space, allocated_space, implicit_items) ==
    IF idx > Len(ch)
    THEN [idx_to_space |-> idx_to_space, allocated_space |-> allocated_space,
          implicit_items |-> implicit_items]
    ELSE LET cframe == ch[idx]
             item_space == IF row THEN cframe.width ELSE cframe.height
         IN  IF item_space[1] = "int"
             THEN node_loop(ch, row, sp, idx + 1,
                            idx_to_space @@ (idx :> RatOfInt(item_space[2])),
                            allocated_space + item_space[2], implicit_items)
             ELSE LET bs == IF row THEN width_bounds(cframe, sp)
                            ELSE height_bounds(cframe, sp)
                  IN  IF item_space = NoneV
                      THEN node_loop(ch, row, sp, idx + 1, idx_to_space, allocated_space,
                                     Append(implicit_items, <<idx, bs>>))
                      ELSE LET v == clip(to_abs(item_space, sp), bs)
                           IN  node_loop(ch, row, sp, idx + 1,
                                         idx_to_space @@ (idx :> RatOfInt(v)),
                                         allocated_space + v, implicit_items)

\* the cached solver is kept for every tuple of the same length
bounds_changed_by_length(solver, bs) == ~solver.set \/ Len(solver.bounds) # Len(bs)

\* if not self._solver or self._solver.bounds != bounds
bounds_changed(solver, bs) == ~solver.set \/ solver.bounds # bs

\* LayoutNode._allocate_space: [outcome, result, solver, built]
node_allocate(ch, row, g, solver, sp0) ==
    LET gap_abs == to_abs(g, sp0)
        sp == sp0 - gap_abs * (IF Len(ch) - 1 > 0 THEN Len(ch) - 1 ELSE 0)
        l == node_loop(ch, row, sp, 1, <<>>, 0, <<>>)
        implicit_items == l.implicit_items
    IN  IF exceeds_space(l.allocated_space, sp)
        THEN [outcome |-> "InsufficientSpaceError", result |-> <<>>, solver |-> solver,
              built |-> FALSE]
        ELSE IF implicit_items = <<>>
        THEN [outcome |-> "ok", result |-> [i \in 1..Len(ch) |-> l.idx_to_space[i]],
              solver |-> solver, built |-> FALSE]
        ELSE LET bs == [i \in 1..Len(implicit_items) |-> implicit_items[i][2]]
                 remaining_space == sp - l.allocated_space
                 built == bounds_changed(solver, bs)
                 solver2 == IF built THEN node_SpaceAllocator(bs) ELSE solver
                 r == node_solve(solver2, remaining_space)
             IN  IF r.outcome # "ok"
                 THEN [outcome |-> r.outcome, result |-> <<>>, solver |-> solver2,
                       built |-> built]
                 ELSE IF \E i \in 1..Len(r.result) : non_positive(r.result[i])
                 THEN [outcome |-> "InsufficientSpaceError", result |-> <<>>,
                       solver |-> solver2, built |-> built]
                 ELSE [outcome |-> "ok",
                       result |-> [i \in 1..Len(ch) |->
                           IF i \in DOMAIN l.idx_to_space THEN l.idx_to_space[i]
                           ELSE LET k == CHOOSE k \in 1..Len(implicit_items) :
                                             implicit_items[k][1] = i
                                IN  r.result[k]],
                       solver |-> solver2, built |-> built]

\* ------------------------------------------------------------ SpecNode
NodeSizes == {NoneV} \cup {IntV(n) : n \in 1..MaxFixed} \cup {FloatV(1, 2)}

NodeBoundDecls == {NoneV} \cup {IntV(n) : n \in 1..MaxNodeBound} \cup {FloatV(1, 2)}

AxisDecls == {d \in NodeSizes \X NodeBoundDecls \X NodeBoundDecls :
                 attr_valid(d[1], d[2], d[3])}

\* the ConstrainedFrame of a child constrained along the axis of its parent
ChildFrame(row, d) ==
    IF row THEN CFrameOf(Unconstrained, d, <<0, 0, 0, 0>>)
    ELSE CFrameOf(d, Unconstrained, <<0, 0, 0, 0>>)

NodeSpaces == 0..MaxNodeSpace

\* a LayoutNode constructed with its children
InitNode ==
    /\ is_row \in BOOLEAN
    /\ gap \in {IntV(0), IntV(MaxGap)}
    /\ \E k \in 1..MaxChildren :
           \E ds \in [1..k -> AxisDecls] :
               children = [i \in 1..k |-> ChildFrame(is_row, ds[i])]
    /\ node_solver = NoSolver
    /\ node_built = FALSE
    /\ node_space = 0
    /\ node_outcome = "none"
    /\ node_result = <<>>
    /\ IdleExceptNode

\* LayoutNode._allocate_space
allocate_space_node(sp) ==
    /\ \E r \in {node_allocate(children, is_row, gap, node_solver, sp)} :
           /\ node_outcome' = r.outcome
           /\ node_result' = r.result
           /\ node_solver' = r.solver
           /\ node_built' = r.built
    /\ node_space' = sp
    /\ UNCHANGED <<is_row, gap, children, exceptNode>>

NextNode == \E sp \in NodeSpaces : allocate_space_node(sp)

SpecNode == InitNode /\ [][NextNode]_vars

\* ------------------------------------------------------------ update_frame
\* the gap is not added to the start of the next child
next_start_without_gap(start, item_space, gap_abs) == RatAdd(start, item_space)

\* start += space + gap
next_start(start, item_space, gap_abs) == RatAdd(RatAdd(start, item_space), RatOfInt(gap_abs))

\* an integer held by a Frame
IntOf(r) == r[1] \div r[2]

\* the loop of LayoutNode.update_frame from child i on: node.update_frame of a
\* child without children is its ConstrainedFrame.set_dimensions relative to the
\* Frame of the parent.  d is the post-margin (top, left, height, width) of the node
RECURSIVE children_update(_, _, _, _, _, _, _, _, _)
children_update(ch, row, d, spaces, gap_abs, i, start, frames, given) ==
    IF i > Len(ch) THEN [outcome |-> "ok", frames |-> frames, handed |-> given]
    ELSE LET a == <<IF row THEN d[1] ELSE start, IF ~row THEN d[2] ELSE start,
                    IF row THEN d[3] ELSE spaces[i], IF ~row THEN d[4] ELSE spaces[i]>>
             r == cframe_set_dimensions(ch[i], frames[i], a[1], a[2], a[3], a[4],
                                        IntOf(d[3]), IntOf(d[4]))
         IN  IF r.outcome # "ok"
             THEN [outcome |-> r.outcome, frames |-> frames, handed |-> Append(given, a)]
             ELSE children_update(ch, row, d, spaces, gap_abs, i + 1,
                                  next_start(start, spaces[i], gap_abs),
                                  [frames EXCEPT ![i] = r.frame], Append(given, a))

\* LayoutNode.update_frame of a node without a parent:
\* [outcome, frame, frames, handed, allocated, alloc]
node_update_frame(c, fr, ch, row, g, solver, frames, top, left, height, width) ==
    LET r0 == cframe_set_dimensions(c, fr, RatOfInt(top), RatOfInt(left), RatOfInt(height),
                                    RatOfInt(width), height, width)
    IN  IF r0.outcome # "ok" \/ ch = <<>>
        THEN [outcome |-> r0.outcome, frame |-> r0.frame, frames |-> frames,
              handed |-> <<>>, allocated |-> FALSE]
        ELSE LET d == r0.returned
                 size == IntOf(IF row THEN d[4] ELSE d[3])
                 al == node_allocate(ch, row, g, solver, size)
             IN  IF al.outcome # "ok"
                 THEN [outcome |-> al.outcome, frame |-> r0.frame, frames |-> frames,
                       handed |-> <<>>, allocated |-> TRUE, size |-> size, alloc |-> al]
                 ELSE LET cu == children_update(ch, row, d, al.result, to_abs(g, size), 1,
                                                IF row THEN d[2] ELSE d[1], frames, <<>>)
                      IN  [outcome |-> cu.outcome, frame |-> r0.frame, frames |-> cu.frames,
                           handed |-> cu.handed, allocated |-> TRUE, size |-> size,
                           alloc |-> al]

\* ------------------------------------------------------------ SpecLayout
\* the children of the laid out node: implicit (free, min 2, max 2), of size 1,
\* or half of the space
LayoutDecls == {Unconstrained, <<NoneV, IntV(2), NoneV>>, <<NoneV, NoneV, IntV(2)>>,
                <<IntV(1), NoneV, NoneV>>, <<FloatV(1, 2), NoneV, NoneV>>}

LayoutSizes == 1..(MaxNodeSpace + 1)

\* Row(children, gap=.., m..=..) or Column(..) with children without children
InitLayout ==
    /\ is_row \in BOOLEAN
    /\ gap \in {IntV(n) : n \in 0..MaxGap}
    /\ \E k \in 1..MaxChildren :
           \E ds \in [1..k -> LayoutDecls] :
               /\ children = [i \in 1..k |-> ChildFrame(is_row, ds[i])]
               /\ child_frames = [i \in 1..k |-> NewFrame]
    /\ node_cframe \in {CFrameOf(Unconstrained, Unconstrained, m) : m \in MarginTuples}
    /\ node_frame = NewFrame
    /\ handed = <<>>
    /\ update_args = <<>>
    /\ update_outcome = "none"
    /\ node_solver = NoSolver
    /\ node_built = FALSE
    /\ node_space = 0
    /\ node_outcome = "none"
    /\ node_result = <<>>
    /\ IdleExceptLayout

\* LayoutNode.update_frame(0, 0, n, n)
update_frame(n) ==
    /\ \E r \in {node_update_frame(node_cframe, node_frame, children, is_row, gap,
                                     node_solver, child_frames, 0, 0, n, n)} :
           /\ update_outcome' = r.outcome
           /\ node_frame' = r.frame
           /\ child_frames' = r.frames
           /\ handed' = r.handed
           /\ IF r.allocated
              THEN /\ node_space' = r.size
                   /\ node_outcome' = r.alloc.outcome
                   /\ node_result' = r.alloc.result
                   /\ node_solver' = r.alloc.solver
                   /\ node_built' = r.alloc.built
              ELSE UNCHANGED <<node_space, node_outcome, node_result, node_solver, node_built>>
    /\ update_args' = <<0, 0, n, n>>
    /\ UNCHANGED <<is_row, gap, children, node_cframe, exceptLayout>>

NextLayout == \E n \in LayoutSizes : update_frame(n)

SpecLayout == InitLayout /\ [][NextLayout]_vars

\* ------------------------------------------------------------ core/node/node.py: the tree
\* The nodes are ContainerNode() objects with the default spec, so that two nodes
\* differ at most in their parent and their children, and every constructor and
\* extend call is given a list of its own.  A comparison yields "T", "F", or "R"
\* when it never returns (RecursionError).
ElementsOf(s) == {s[i] : i \in 1..Len(s)}

\* the dataclass __eq__ of Node: the fields are compared in order (parent first,
\* then children), identical objects are equal without a comparison, and a
\* comparison that meets a pair it is already comparing does not terminate
RECURSIVE node_eq(_, _, _, _, _)
node_eq(P, K, a, b, stack) ==
    IF a = b THEN "T"
    ELSE IF <<a, b>> \in stack THEN "R"
    ELSE LET st == stack \cup {<<a, b>>}
             ByParent == IF P[a] = P[b] THEN "T"
                         ELSE IF P[a] = None \/ P[b] = None THEN "F"
                         ELSE node_eq(P, K, P[a], P[b], st)
             RECURSIVE ByChildren(_)
             ByChildren(i) ==
                 IF i > Len(K[a]) THEN "T"
                 ELSE LET r == node_eq(P, K, K[a][i], K[b][i], st)
                      IN  IF r # "T" THEN r ELSE ByChildren(i + 1)
         IN  IF ByParent # "T" THEN ByParent
             ELSE IF Len(K[a]) # Len(K[b]) THEN "F"
             ELSE ByChildren(1)

\* node in list: the first element that is the node or equals it
RECURSIVE list_contains(_, _, _, _, _)
list_contains(P, K, lst, node, i) ==
    IF i > Len(lst) THEN "F"
    ELSE LET r == node_eq(P, K, lst[i], node, {})
         IN  IF r # "F" THEN r ELSE list_contains(P, K, lst, node, i + 1)

\* any(node in self.children for node in nodes)
RECURSIVE any_child(_, _, _, _, _)
any_child(P, K, lst, nodes, j) ==
    IF j > Len(nodes) THEN "F"
    ELSE LET r == list_contains(P, K, lst, nodes[j], 1)
         IN  IF r # "F" THEN r ELSE any_child(P, K, lst, nodes, j + 1)

\* the first loop of _move_parents: [parent, old_parents, removed]
RECURSIVE move_collect(_, _, _, _, _, _)
move_collect(P, new_parent, nodes, i, old_parents, removed) ==
    IF i > Len(nodes)
    THEN [parent |-> P, old_parents |-> old_parents, removed |-> removed]
    ELSE LET node == nodes[i]
             old_parent == P[node]
         IN  IF old_parent # None
             THEN move_collect([P EXCEPT ![node] = new_parent], new_parent, nodes, i + 1,
                               IF old_parent \in ElementsOf(old_parents) THEN old_parents
                               ELSE Append(old_parents, old_parent),
                               [removed EXCEPT ![old_parent] = @ \cup {node}])
             ELSE move_collect([P EXCEPT ![node] = new_parent], new_parent, nodes, i + 1,
                               old_parents, removed)

\* the second loop of _move_parents: every old parent gets a filtered list
RECURSIVE move_remove(_, _, _, _)
move_remove(K, old_parents, removed, j) ==
    IF j > Len(old_parents) THEN K
    ELSE LET old_parent == old_parents[j]
         IN  move_remove([K EXCEPT ![old_parent] =
                              SelectSeq(K[old_parent], LAMBDA c : c \notin removed[old_parent])],
                         old_parents, removed, j + 1)

\* _move_parents(new_parent, children)
move_parents(P, K, new_parent, nodes) ==
    LET c == move_collect(P, new_parent, nodes, 1, <<>>, [n \in NodeIds |-> {}])
    IN  [parent |-> c.parent, children |-> move_remove(K, c.old_parents, c.removed, 1)]

\* Node.__post_init__ of the new node n constructed with the children lst
Node_init(P, K, n, lst) == move_parents(P, [K EXCEPT ![n] = lst], n, lst)

\* Node.extend(*nodes): [outcome, parent, children]
Node_extend(P, K, self, nodes) ==
    LET found == any_child(P, K, K[self], nodes, 1)
    IN  IF found # "F"
        THEN [outcome |-> IF found = "T" THEN "NodeError" ELSE "RecursionError",
              parent |-> P, children |-> K]
        ELSE LET r == move_parents(P, K, self, nodes)
             IN  [outcome |-> "ok", parent |-> r.parent,
                  children |-> [r.children EXCEPT ![self] = @ \o nodes]]

\* ------------------------------------------------------------ SpecTree
\* the argument lists of a constructor or of extend, in the order the nodes were
\* constructed; a node may be named twice
NodeLists(lo) ==
    {lst \in UNION {[1..k -> tree_nodes] : k \in lo..MaxArgs} :
        \A i \in 1..(Len(lst) - 1) : lst[i] <= lst[i + 1]}

InitTree ==
    /\ tree_nodes = {}
    /\ tree_parent = [n \in NodeIds |-> None]
    /\ tree_children = [n \in NodeIds |-> <<>>]
    /\ tree_call = "none"
    /\ tree_outcome = "none"
    /\ IdleExceptTree

\* ContainerNode(lst): the new node is the first unused one
new_node(lst) ==
    /\ tree_nodes # NodeIds
    /\ LET n == CHOOSE m \in NodeIds \ tree_nodes : \A o \in NodeIds \ tree_nodes : m <= o
       IN  \E r \in {Node_init(tree_parent, tree_children, n, lst)} :
               /\ tree_nodes' = tree_nodes \cup {n}
               /\ tree_parent' = r.parent
               /\ tree_children' = r.children
               /\ tree_call' = "Node"
    /\ tree_outcome' = "ok"
    /\ UNCHANGED exceptTree

\* self.extend(*nodes); self.append(node) is self.extend(node)
extend(self, nodes) ==
    /\ \E r \in {Node_extend(tree_parent, tree_children, self, nodes)} :
           /\ tree_outcome' = r.outcome
           /\ tree_parent' = r.parent
           /\ tree_children' = r.children
    /\ tree_call' = "extend"
    /\ UNCHANGED <<tree_nodes, exceptTree>>

NextTree ==
    \/ \E lst \in NodeLists(0) : new_node(lst)
    \/ \E self \in tree_nodes : \E nodes \in NodeLists(1) : extend(self, nodes)

SpecTree == InitTree /\ [][NextTree]_vars

\* ------------------------------------------------------------ transpose
\* flip_orientation: only a LayoutNode has is_row
flip_orientation(O, n) ==
    IF O[n] = "none" THEN O
    ELSE [O EXCEPT ![n] = IF O[n] = "row" THEN "col" ELSE "row"]

RECURSIVE Node_apply(_, _, _, _)
RECURSIVE apply_children(_, _, _, _, _)
\* apply that stops at every depth <= 0
Node_apply_stop_negative(K, O, n, depth) ==
    LET O1 == flip_orientation(O, n)
    IN  IF depth <= 0 THEN O1
        ELSE apply_children(K, O1, K[n], 1, depth)

\* Node.apply(flip_orientation, depth): the orientations after the call
Node_apply(K, O, n, depth) ==
    LET O1 == flip_orientation(O, n)
    IN  IF depth = 0 THEN O1
        ELSE apply_children(K, O1, K[n], 1, depth)

\* the loop over self.children of Node.apply, from child i on
apply_children(K, O, ch, i, depth) ==
    IF i > Len(ch) THEN O
    ELSE apply_children(K, Node_apply(K, O, ch[i], depth - 1), ch, i + 1, depth)

\* ------------------------------------------------------------ SpecTranspose
FlipIds == 1..MaxFlipNodes

Depths == {0 - 1, 0, 1, 2}

\* the children of n in a tree given by its parents, in the order of construction
ChildrenOf(P, n) ==
    LET c == {m \in DOMAIN P : P[m] = n}
    IN  [i \in 1..Cardinality(c) |->
            CHOOSE m \in c : Cardinality({o \in c : o < m}) = i - 1]

\* trees built by constructors whose children were constructed before them,
\* the root (or the last child of a forest) being node 1
InitTranspose ==
    /\ tree_nodes = FlipIds
    /\ tree_parent \in {P \in [FlipIds -> FlipIds \cup {None}] :
                            P[1] = None /\ \A n \in FlipIds : P[n] = None \/ P[n] < n}
    /\ tree_children = [n \in FlipIds |-> ChildrenOf(tree_parent, n)]
    /\ tree_call = "none"
    /\ tree_outcome = "none"
    /\ tree_is_row \in [FlipIds -> {"row", "col", "none"}]
    /\ transpose_args = <<>>
    /\ IdleExceptTranspose

\* n.transpose(depth) on a LayoutNode n
transpose_node(n, depth) ==
    /\ tree_is_row[n] # "none"
    /\ tree_is_row' = Node_apply(tree_children, tree_is_row, n, depth)
    /\ transpose_args' = <<n, depth, tree_is_row>>
    /\ tree_call' = "transpose"
    /\ tree_outcome' = "ok"
    /\ UNCHANGED <<tree_nodes, tree_parent, tree_children, exceptTranspose>>

NextTranspose == \E n \in FlipIds : \E depth \in Depths : transpose_node(n, depth)

SpecTranspose == InitTranspose /\ [][NextTranspose]_vars

\* ------------------------------------------------------------ builder.py: Layout
\* Column(**kwargs) and Row(**kwargs): Node.__post_init__ builds the
\* ConstrainedFrame of the declaration, which validates it
new_layout_node(kwargs) == IF cframe_valid(kwargs) THEN "ok" ELSE "FrameConstraintError"

\* Column(**kwargs).bind(window) and Row(**kwargs).bind(window): LayoutNode and
\* Node define bind_window, and no attribute bind
bind(kwargs) == IF new_layout_node(kwargs) = "ok" THEN "AttributeError"
                ELSE new_layout_node(kwargs)

\* Layout.row(): [outcome, node]; LayoutNodeFactory(None, node).row(..) on a
\* column root binds a Row() of its own
Layout_row(kwargs, node) ==
    IF node = "None" THEN [outcome |-> bind(kwargs), node |-> node]
    ELSE IF node = "row" THEN [outcome |-> "LayoutError", node |-> node]
    ELSE [outcome |-> bind(NewCFrame), node |-> node]

\* Layout.col(): [outcome, node]; LayoutNodeFactory(None, node).col(..) on a
\* row root binds a Column() of its own
Layout_col(kwargs, node) ==
    IF node = "None" THEN [outcome |-> bind(kwargs), node |-> node]
    ELSE IF node = "col" THEN [outcome |-> "LayoutError", node |-> node]
    ELSE [outcome |-> bind(NewCFrame), node |-> node]

\* ------------------------------------------------------------ SpecBuilder
\* Layout(**kwargs)
InitBuilder ==
    /\ layout_kwargs \in CFrameDecls
    /\ layout_node = "None"
    /\ layout_call = "none"
    /\ layout_outcome = "none"
    /\ IdleExceptBuilder

\* Layout.row()
call_row ==
    /\ \E r \in {Layout_row(layout_kwargs, layout_node)} :
           /\ layout_outcome' = r.outcome
           /\ layout_node' = r.node
    /\ layout_call' = "row"
    /\ UNCHANGED <<layout_kwargs, exceptBuilder>>

\* Layout.col()
call_col ==
    /\ \E r \in {Layout_col(layout_kwargs, layout_node)} :
           /\ layout_outcome' = r.outcome
           /\ layout_node' = r.node
    /\ layout_call' = "col"
    /\ UNCHANGED <<layout_kwargs, exceptBuilder>>

NextBuilder == call_row \/ call_col

SpecBuilder == InitBuilder /\ [][NextBuilder]_vars

\* ------------------------------------------------------------ styles
\* A Style is its bold flag, "true" or "false"; Style.default is not bold.
\* Style.derive(**kwargs): the flags named by kwargs replace those of the base
Style_derive(base, kwargs) == IF kwargs = "unset" THEN base ELSE kwargs

\* NodeSpec.derive_style(parent_style), parent_style "None" without a parent
derive_style(base, kwargs, parent_style) ==
    Style_derive(IF base = "default" \/ parent_style = "None" THEN "false" ELSE parent_style,
                 kwargs)

\* Node.style of n: [style, cache]; a cached Style is returned, anything else is
\* derived from the style of the parent and cached
RECURSIVE Node_style(_, _, _, _, _)
Node_style(P, B, KW, C, n) ==
    IF C[n] \notin {"deleted", "None"} THEN [style |-> C[n], cache |-> C]
    ELSE LET up == IF P[n] = None THEN [style |-> "None", cache |-> C]
                   ELSE Node_style(P, B, KW, C, P[n])
             derived == derive_style(B[n], KW[n], up.style)
         IN  [style |-> derived, cache |-> [up.cache EXCEPT ![n] = derived]]

\* the nodes Node.apply visits from n: n, then the subtree of each child in turn
RECURSIVE Visited(_, _)
Visited(P, n) ==
    LET RECURSIVE From(_)
        From(c) == IF c > MaxStyled THEN <<>>
                   ELSE IF P[c] = n THEN Visited(P, c) \o From(c + 1)
                   ELSE From(c + 1)
    IN  <<n>> \o From(n + 1)

\* delattr(node, "_cached_style") along the visited nodes: deleting a slot that
\* holds nothing raises AttributeError
RECURSIVE invalidate(_, _, _)
invalidate(C, visited, i) ==
    IF i > Len(visited) THEN [outcome |-> "ok", cache |-> C]
    ELSE IF C[visited[i]] = "deleted" THEN [outcome |-> "AttributeError", cache |-> C]
    ELSE invalidate([C EXCEPT ![visited[i]] = "deleted"], visited, i + 1)

\* NodeSpec.update_style(bold=..): [outcome, kwargs]; the new kwargs replace the
\* old ones, and a flag given as None is looked up as an attribute of the dict
NodeSpec_update_style(kwargs, bold) ==
    IF bold = "None" THEN [outcome |-> "AttributeError", kwargs |-> kwargs]
    ELSE [outcome |-> "ok", kwargs |-> IF bold = "omitted" THEN "unset" ELSE bold]

\* Node.update_style(bold=..) of a node without a window: [outcome, kwargs, cache]
Node_update_style(P, KW, C, n, bold) ==
    LET sp == NodeSpec_update_style(KW[n], bold)
    IN  IF sp.outcome # "ok" THEN [outcome |-> sp.outcome, kwargs |-> KW, cache |-> C]
        ELSE LET inv == invalidate(C, Visited(P, n), 1)
             IN  [outcome |-> inv.outcome, kwargs |-> [KW EXCEPT ![n] = sp.kwargs],
                  cache |-> inv.cache]

\* ------------------------------------------------------------ SpecStyle
\* a tree of MaxStyled nodes: every node but the first has an earlier node as
\* its parent; styles are not cached yet
InitStyle ==
    /\ styled_parent \in {P \in [StyledIds -> StyledIds \cup {None}] :
                              /\ P[1] = None
                              /\ \A n \in StyledIds \ {1} : P[n] \in 1..(n - 1)}
    /\ base_style \in {B \in [StyledIds -> {"parent", "default"}] : B[1] = "parent"}
    /\ style_kwargs \in [StyledIds -> {"unset", "true"}]
    /\ cached_style = [n \in StyledIds |-> "None"]
    /\ style_call = <<>>
    /\ style_outcome = "none"
    /\ IdleExceptStyle

\* node.style
read_style(n) ==
    /\ cached_style' =
           Node_style(styled_parent, base_style, style_kwargs, cached_style, n).cache
    /\ style_call' = <<"style", n>>
    /\ style_outcome' = "ok"
    /\ UNCHANGED <<styled_parent, base_style, style_kwargs, exceptStyle>>

\* node.update_style(bold=..), node.update_style()
update_style(n, bold) ==
    /\ \E r \in {Node_update_style(styled_parent, style_kwargs, cached_style, n, bold)} :
           /\ style_outcome' = r.outcome
           /\ style_kwargs' = r.kwargs
           /\ cached_style' = r.cache
    /\ style_call' = <<"update_style", n, bold>>
    /\ UNCHANGED <<styled_parent, base_style, exceptStyle>>

NextStyle ==
    \/ \E n \in StyledIds : read_style(n)
    \/ \E n \in StyledIds : \E bold \in {"omitted", "None", "true", "false"} :
           update_style(n, bold)

SpecStyle == InitStyle /\ [][NextStyle]_vars

\* ------------------------------------------------------------ SpecNodeEdit
\* the children of the edited node: implicit, with or without an upper bound
EditDecls == {d \in AxisDecls : d[1] = NoneV /\ d[2] = NoneV}

\* Row([child]): a row without gaps and with one child
InitNodeEdit ==
    /\ is_row = TRUE
    /\ gap = IntV(0)
    /\ \E d \in EditDecls : children = <<ChildFrame(TRUE, d)>>
    /\ node_solver = NoSolver
    /\ node_built = FALSE
    /\ node_space = 0
    /\ node_outcome = "none"
    /\ node_result = <<>>
    /\ IdleExceptNode

\* LayoutNode.transpose(0): the orientation of the node itself is flipped
transpose ==
    /\ is_row' = ~is_row
    /\ UNCHANGED <<gap, children, node_solver, node_built, node_space, node_outcome,
                   node_result, exceptNode>>

\* Node.append of a new child constrained along the current axis of the node
append(d) ==
    /\ Len(children) < MaxChildren
    /\ children' = Append(children, ChildFrame(is_row, d))
    /\ UNCHANGED <<is_row, gap, node_solver, node_built, node_space, node_outcome,
                   node_result, exceptNode>>

NextNodeEdit ==
    \/ \E sp \in NodeSpaces : allocate_space_node(sp)
    \/ transpose
    \/ \E d \in EditDecls : append(d)

\* a LayoutNode whose orientation and children change between the calls
SpecNodeEdit == InitNodeEdit /\ [][NextNodeEdit]_vars

\* ------------------------------------------------------------ claims: solver
NonEmpty == Len(bounds) + n_unconstrained >= 1

\* the bound of the i-th entry of the result: unconstrained items have none
BoundOf(i) == IF i <= Len(bounds) THEN bounds[i] ELSE <<None, None>>

RECURSIVE LowerSum(_)
LowerSum(bs) == IF bs = <<>> THEN 0
                ELSE LowerSum(SubSeq(bs, 1, Len(bs) - 1))
                     + (IF bs[Len(bs)][1] = None THEN 0 ELSE bs[Len(bs)][1])

\* v clipped to the interval b
ClippedTo(v, b) ==
    IF b[2] # None /\ RatLess(RatOfInt(b[2]), v) THEN RatOfInt(b[2])
    ELSE IF b[1] # None /\ RatLess(v, RatOfInt(b[1])) THEN RatOfInt(b[1])
    ELSE v

C2_Integrality ==
    outcome = "ok" =>
        /\ \A i \in 1..Len(result) : RatIsInt(result[i])
        /\ (bounds = <<>> /\ n_unconstrained = 3 /\ space = 10) =>
               \E p \in {<<4, 3, 3>>, <<3, 4, 3>>, <<3, 3, 4>>} :
                   \A i \in 1..3 : RatEq(result[i], RatOfInt(p[i]))

\* C3: whenever solve(space) returns, every bounded item's allocation is at
\* least its lower bound when present and at most its upper bound when present.
C3_BoundRespect ==
    outcome = "ok" =>
        \A i \in 1..Len(bounds) :
            /\ bounds[i][1] # None => RatLeq(RatOfInt(bounds[i][1]), result[i])
            /\ bounds[i][2] # None => RatLeq(result[i], RatOfInt(bounds[i][2]))

C3_Witness ==
    /\ outcome = "ok"
    /\ \E i \in 1..Len(bounds) :
           bounds[i][2] # None /\ RatLess(RatOfInt(bounds[i][2]), x)
    /\ \E i \in 1..Len(bounds) :
           bounds[i][1] # None /\ RatLess(x, RatOfInt(bounds[i][1]))

\* C5: for a non-empty valid bound set, solve(space) fails with the
\* out-of-range error for every space below the sum of the present lower
\* bounds; at exactly that sum it succeeds, every lower-bounded item gets its
\* lower bound and every item without a lower bound gets 0.
C5_FeasibilityFloor ==
    (outcome # "none" /\ NonEmpty) =>
        /\ space < LowerSum(bounds) => outcome = "ValueError"
        /\ space = LowerSum(bounds) =>
               /\ outcome = "ok"
               /\ Len(result) = Len(bounds) + n_unconstrained
               /\ \A i \in 1..Len(result) :
                      RatEq(result[i], IF BoundOf(i)[1] # None
                                       THEN RatOfInt(BoundOf(i)[1])
                                       ELSE RatOfInt(0))

C5_Witness ==
    /\ outcome = "ok"
    /\ space = LowerSum(bounds)
    /\ n_unconstrained >= 1
    /\ \E i \in 1..Len(bounds) : bounds[i][1] # None
    /\ \E i \in 1..Len(bounds) : bounds[i][1] = None

\* C6: for a fixed bound set, a solve call with a space not smaller than the
\* one of the preceding call gives no item a smaller allocation (both calls
\* returning).
C6_Monotonicity ==
    [][(outcome = "ok" /\ outcome' = "ok" /\ space <= space') =>
           \A i \in 1..Len(result) : RatLeq(result[i], result'[i])]_vars

C6_Witness ==
    /\ outcome = "ok"
    /\ space >= 3
    /\ Len(bounds) >= 1
    /\ n_unconstrained >= 1
    /\ \E i \in 1..Len(bounds) : ~RatEq(result[i], x)

\* C7: whenever solve returns there is a single value such that each item's
\* allocation is that value clipped to the item's bounds; unconstrained items
\* receive the same amount, items strictly inside their bounds receive equal
\* amounts, and bounds (2,5) plus one unconstrained item at space 4 give 2, 2.
C7_EvenSplit ==
    outcome = "ok" =>
        /\ \E j \in 1..Len(result) :
               \A i \in 1..Len(result) :
                   RatEq(result[i], ClippedTo(result[j], BoundOf(i)))
        /\ \A i, j \in (Len(bounds) + 1)..Len(result) : RatEq(result[i], result[j])
        /\ \A i, j \in 1..Len(result) :
               (/\ BoundOf(i)[1] # None => ~RatEq(result[i], RatOfInt(BoundOf(i)[1]))
                /\ BoundOf(i)[2] # None => ~RatEq(result[i], RatOfInt(BoundOf(i)[2]))
                /\ BoundOf(j)[1] # None => ~RatEq(result[j], RatOfInt(BoundOf(j)[1]))
                /\ BoundOf(j)[2] # None => ~RatEq(result[j], RatOfInt(BoundOf(j)[2])))
               => RatEq(result[i], result[j])
        /\ (bounds = <<<<2, 5>>>> /\ n_unconstrained = 1 /\ space = 4) =>
               /\ Len(result) = 2
               /\ RatEq(result[1], RatOfInt(2))
               /\ RatEq(result[2], RatOfInt(2))

C7_Witness ==
    /\ outcome = "ok"
    /\ bounds = <<<<2, 5>>>>
    /\ n_unconstrained = 1
    /\ space = 4

\* C8: solve returns len(bounds) + n_unconstrained entries: the i-th is the
\* allocation of bounds[i] (x clipped to bounds[i]) in constructor order, the
\* n_unconstrained trailing entries all equal the unclipped share x.
C8_ResultShape ==
    outcome = "ok" =>
        /\ Len(result) = Len(bounds) + n_unconstrained
        /\ \A i \in 1..Len(bounds) : RatEq(result[i], ClippedTo(x, bounds[i]))
        /\ \A i \in (Len(bounds) + 1)..Len(result) : result[i] = x

C8_Witness ==
    /\ outcome = "ok"
    /\ Len(bounds) = 2
    /\ n_unconstrained = 2
    /\ bounds[1] # bounds[2]
    /\ ~RatEq(result[1], result[2])
    /\ ~RatEq(result[2], x)

\* C13: solve is read-only and deterministic: every solve call, failing ones
\* included, leaves bounds, n_unconstrained and the table equal to what the
\* constructor built, and a call with the space of the preceding call returns
\* the same result.
C13_ReadOnly ==
    /\ [](table = solve_table(bounds, n_unconstrained))
    /\ [][/\ bounds' = bounds
          /\ n_unconstrained' = n_unconstrained
          /\ table' = table
          /\ (outcome # "none" /\ space' = space) =>
                 (outcome' = outcome /\ result' = result)]_vars

C13_Witness ==
    /\ outcome = "ValueError"
    /\ Len(table[1]) >= 3
    /\ n_unconstrained >= 1

\* ------------------------------------------------------------ claims: Frame
\* the last direct call's arguments are ones the Frame must reject
Rejected ==
    \/ frame_args[1] < 0
    \/ frame_args[2] < 0
    \/ frame_args[3] <= 0
    \/ frame_args[4] <= 0
    \/ frame_args[5] + frame_args[6] >= frame_args[3]
    \/ frame_args[7] + frame_args[8] >= frame_args[4]

\* C16: Frame.set_dimensions raises FrameError and leaves every stored
\* dimension and padding unchanged (a never-set frame stays not ready) when top
\* or left is negative, height or width is not strictly positive, or the two
\* paddings on an axis sum to at least the outer size on that axis; otherwise
\* it stores all eight values and the frame is ready.
C16_FrameDimensions ==
    [][frame_args' # <<>> =>
           IF Rejected'
           THEN /\ frame_outcome' = "FrameError"
                /\ frame' = frame
                /\ is_ready(frame') <=> is_ready(frame)
           ELSE /\ frame_outcome' = "ok"
                /\ is_ready(frame')
                /\ frame' = [top |-> RatOfInt(frame_args'[1]),
                             left |-> RatOfInt(frame_args'[2]),
                             height |-> RatOfInt(frame_args'[3]),
                             width |-> RatOfInt(frame_args'[4]),
                             padding_top |-> frame_args'[5],
                             padding_bottom |-> frame_args'[6],
                             padding_left |-> frame_args'[7],
                             padding_right |-> frame_args'[8]]]_vars

C16_Witness ==
    /\ frame_outcome = "FrameError"
    /\ is_ready(frame)
    /\ frame.padding_top = 1
    /\ frame_args[1] = 0
    /\ frame_args[2] = 0
    /\ frame_args[3] = 2
    /\ frame_args[4] = 2
    /\ frame_args[7] + frame_args[8] = 2

\* ------------------------------------------------------------ claims: ConstrainedFrame
\* both bounds are declared and the lower one is not below the upper one
LowerNotBelowUpper(x_min, x_max) ==
    /\ x_min # NoneV
    /\ x_max # NoneV
    /\ x_min[2] * x_max[3] >= x_max[2] * x_min[3]

\* C14: declaring an item whose lower and upper bound on the same axis are
\* both present with lower >= upper, equal bounds included, raises a constraint
\* error at construction: no such item exists afterwards.
C14_BoundOrder ==
    (cframe_outcome # "none"
        /\ (\/ LowerNotBelowUpper(cframe_decl.height_min, cframe_decl.height_max)
            \/ LowerNotBelowUpper(cframe_decl.width_min, cframe_decl.width_max)))
    => cframe_outcome = "FrameConstraintError"

C14_Witness ==
    /\ cframe_outcome = "FrameConstraintError"
    /\ cframe_decl.height = NoneV
    /\ cframe_decl.height_min = IntV(MaxDim)
    /\ cframe_decl.height_max = IntV(MaxDim)

\* a declared int or fraction of outer, rounded down
Normalized(v, outer) == IF v[1] = "int" THEN v[2] ELSE (v[2] * outer) \div v[3]

\* the size is not the one the declaration of the axis allows
Disallowed(xa, x_min, x_max, size, outer) ==
    \/ xa # NoneV /\ x_min = NoneV /\ x_max = NoneV /\ size # Normalized(xa, outer)
    \/ x_min # NoneV /\ size < Normalized(x_min, outer)
    \/ x_max # NoneV /\ size > Normalized(x_max, outer)

\* C17: ConstrainedFrame.set_dimensions raises FrameConstraintError, without
\* changing the inner Frame, whenever the given height or width differs from
\* an exact size declared without bounds, lies below the normalized lower
\* bound or above the normalized upper bound; when it returns, the inner Frame
\* holds (top+mt, left+ml, height-mt-mb, width-ml-mr).
C17_ConstrainedDimensions ==
    [][cframe_args' # <<>> =>
           LET a == cframe_args'
               c == cframe_decl'
               mt == Normalized(c.margin_top, a[5])
               mb == Normalized(c.margin_bottom, a[5])
               ml == Normalized(c.margin_left, a[6])
               mr == Normalized(c.margin_right, a[6])
           IN  /\ (\/ Disallowed(c.height, c.height_min, c.height_max, a[3], a[5])
                    \/ Disallowed(c.width, c.width_min, c.width_max, a[4], a[6]))
                   => (cframe_call' = "FrameConstraintError" /\ frame' = frame)
               /\ cframe_call' = "ok" =>
                      /\ frame'.top = RatOfInt(a[1] + mt)
                      /\ frame'.left = RatOfInt(a[2] + ml)
                      /\ frame'.height = RatOfInt(a[3] - mt - mb)
                      /\ frame'.width = RatOfInt(a[4] - ml - mr)]_vars

C17_Witness ==
    /\ cframe_call = "FrameConstraintError"
    /\ is_ready(frame)
    /\ frame.top = RatOfInt(2)
    /\ cframe_decl.margin_top = IntV(1)
    /\ cframe_decl.height_min = FloatV(1, 2)
    /\ cframe_args[3] = 0

\* ------------------------------------------------------------ claims: LayoutItem
\* C4: LayoutItem._allocate_space pairs every child with its own allocation: a
\* fixed child gets its integer size, a relative child floor(fraction*space)
\* clipped to its bounds, and an implicit child with bounds (min, max) gets a
\* space inside [min, max], whatever the order of the implicit children.
C4_OwnAllocation ==
    item_outcome = "ok" =>
        /\ Len(item_result) = Len(items)
        /\ \A i \in 1..Len(items) :
               LET it == items[i]
                   a == item_result[i]
               IN  /\ it.size[1] = "int" => RatEq(a, RatOfInt(it.size[2]))
                   /\ it.size[1] = "float" =>
                          RatEq(a, RatOfInt(clip((it.size[2] * items_space) \div it.size[3],
                                                 <<it.size_min, it.size_max>>)))
                   /\ it.size = NoneV =>
                          /\ it.size_min # None => RatLeq(RatOfInt(it.size_min), a)
                          /\ it.size_max # None => RatLeq(a, RatOfInt(it.size_max))

\* ------------------------------------------------------------ claims: LayoutNode
\* the declaration of child i along the axis of the node: <<size, min, max>>
AxisOf(i) == IF is_row
             THEN <<children[i].width, children[i].width_min, children[i].width_max>>
             ELSE <<children[i].height, children[i].height_min, children[i].height_max>>

\* the space left after the gaps are subtracted
AvailableSpace ==
    node_space - to_abs(gap, node_space) * (IF Len(children) > 1 THEN Len(children) - 1 ELSE 0)

\* the allocation of a fixed or relative child
FixedOrRelative(i) ==
    LET d == AxisOf(i)
    IN  IF d[1][1] = "int" THEN d[1][2]
        ELSE clip(to_abs(d[1], AvailableSpace),
                  <<to_abs(d[2], AvailableSpace), to_abs(d[3], AvailableSpace)>>)

RECURSIVE FixedRelativeSum(_)
FixedRelativeSum(n) ==
    IF n = 0 THEN 0
    ELSE FixedRelativeSum(n - 1) + (IF AxisOf(n)[1] = NoneV THEN 0 ELSE FixedOrRelative(n))

\* C9: LayoutNode._allocate_space raises InsufficientSpaceError whenever the
\* fixed and relative children's allocations sum to more than the space left
\* after the gaps, and then yields no allocation for any child.
C9_InsufficientSpace ==
    (node_outcome # "none" /\ FixedRelativeSum(Len(children)) > AvailableSpace) =>
        /\ node_outcome = "InsufficientSpaceError"
        /\ node_result = <<>>

C9_Witness ==
    /\ node_outcome = "InsufficientSpaceError"
    /\ FixedRelativeSum(Len(children)) > AvailableSpace
    /\ FixedRelativeSum(Len(children)) <= node_space
    /\ Len(children) = 2
    /\ \E i \in 1..2 : AxisOf(i)[1][1] = "float"

\* C10: whenever LayoutNode._allocate_space returns normally every implicit
\* child's allocation is strictly positive; an implicit allocation <= 0 from
\* the solver raises InsufficientSpaceError instead.
C10_PositiveImplicit ==
    /\ node_outcome = "ok" =>
           /\ Len(node_result) = Len(children)
           /\ \A i \in 1..Len(children) :
                  AxisOf(i)[1] = NoneV => RatLess(RatOfInt(0), node_result[i])
    /\ (/\ node_outcome # "none"
        /\ Len(children) = 1
        /\ AxisOf(1) = <<NoneV, NoneV, NoneV>>
        /\ node_space = 0) => node_outcome = "InsufficientSpaceError"

C10_Witness ==
    /\ node_outcome = "InsufficientSpaceError"
    /\ FixedRelativeSum(Len(children)) = AvailableSpace
    /\ Len(children) = 2
    /\ \E i \in 1..2 : AxisOf(i) = <<NoneV, NoneV, NoneV>>

\* ------------------------------------------------------------ claims: solver cache
\* the declaration of a child along the axis of a row or of a column
AxisDecl(c, row) == IF row THEN <<c.width, c.width_min, c.width_max>>
                    ELSE <<c.height, c.height_min, c.height_max>>

\* the normalized bounds of the implicit children, in child order
ImplicitBounds(ch, row, sp) ==
    LET idx == SelectSeq([i \in 1..Len(ch) |-> i], LAMBDA i : AxisDecl(ch[i], row)[1] = NoneV)
    IN  [k \in 1..Len(idx) |-> <<to_abs(AxisDecl(ch[idx[k]], row)[2], sp),
                                 to_abs(AxisDecl(ch[idx[k]], row)[3], sp)>>]

\* the last call got as far as the solver
ReachedSolver ==
    /\ node_outcome # "none"
    /\ FixedRelativeSum(Len(children)) <= AvailableSpace
    /\ \E i \in 1..Len(children) : AxisOf(i)[1] = NoneV

\* C11: on every _allocate_space call that solves, the cached solver is
\* replaced exactly when the normalized bounds of the implicit children differ
\* by value from the cached solver's bounds: the solve uses a table built from
\* the current bounds, and unchanged bounds reuse the same solver; a call that
\* does not solve leaves the cached solver alone.
C11_SolverCache ==
    [][UNCHANGED <<is_row, gap, children>> =>
           LET bs == ImplicitBounds(children', is_row', AvailableSpace')
           IN  IF ReachedSolver'
               THEN /\ node_solver'.set
                    /\ node_solver'.bounds = bs
                    /\ node_solver'.table = solve_table(bs, 0)
                    /\ node_built' <=> (~node_solver.set \/ node_solver.bounds # bs)
                    /\ ~node_built' => node_solver' = node_solver
               ELSE /\ node_solver' = node_solver
                    /\ ~node_built']_vars

C11_Witness ==
    /\ node_outcome = "ok"
    /\ ~node_built
    /\ ~is_row
    /\ Len(node_solver.bounds) = 2
    /\ node_solver.bounds[1] = <<None, None>>
    /\ node_space = 3

\* ------------------------------------------------------------ claims: update_frame
\* where a region handed to a child starts and how far it extends along the axis
RegionStart(i) == IF is_row THEN handed[i][2] ELSE handed[i][1]

RegionSize(i) == IF is_row THEN handed[i][4] ELSE handed[i][3]

\* the start and the size of the node along its axis once its margins are taken off
PostMarginStart ==
    IF is_row THEN update_args[2] + node_cframe.margin_left[2]
    ELSE update_args[1] + node_cframe.margin_top[2]

PostMarginSize ==
    IF is_row
    THEN update_args[4] - (node_cframe.margin_left[2] + node_cframe.margin_right[2])
    ELSE update_args[3] - (node_cframe.margin_top[2] + node_cframe.margin_bottom[2])

RECURSIVE RegionSum(_)
RegionSum(n) == IF n = 0 THEN RatOfInt(0) ELSE RatAdd(RegionSum(n - 1), RegionSize(n))

C15_AllOrNothing ==
    [][(update_args' # <<>> /\ update_outcome' # "ok") =>
           /\ node_frame' = node_frame
           /\ child_frames' = child_frames]_vars

\* ------------------------------------------------------------ claims: Node tree
\* the node was given another parent by the step
Moved(n) == tree_parent'[n] # tree_parent[n]

\* C18: after every constructor, append and extend call a node's parent is p
\* exactly when the node occurs in p.children (so that it occurs in the children
\* of at most one node), and a node that a call moves is taken out of the
\* children of its old parent and keeps its own children, whose parents do not
\* change unless the call moves them too.
C18_TreeConsistency ==
    /\ [](\A n \in tree_nodes : \A q \in tree_nodes :
              tree_parent[n] = q <=> n \in ElementsOf(tree_children[q]))
    /\ [][\A n \in tree_nodes :
              Moved(n) =>
                  /\ n \in ElementsOf(tree_children'[tree_parent'[n]])
                  /\ tree_parent[n] # None =>
                         n \notin ElementsOf(tree_children'[tree_parent[n]])
                  /\ tree_children'[n] = tree_children[n]
                  /\ \A c \in ElementsOf(tree_children[n]) :
                         ~Moved(c) => tree_parent'[c] = n]_vars

\* ------------------------------------------------------------ claims: Layout builder
\* C20: on a Layout with a valid declaration the first row() call makes a column
\* root and the first col() call a row root; a later call of the other kind
\* raises LayoutError and leaves the root as it is, and no call changes the
\* orientation of the root once it is set.
C20_RootOrientation ==
    [][cframe_valid(layout_kwargs) =>
           /\ (layout_node = "None" /\ layout_call' = "row") => layout_node' = "col"
           /\ (layout_node = "None" /\ layout_call' = "col") => layout_node' = "row"
           /\ (layout_node = "row" /\ layout_call' = "row") =>
                  layout_outcome' = "LayoutError"
           /\ (layout_node = "col" /\ layout_call' = "col") =>
                  layout_outcome' = "LayoutError"
           /\ layout_node # "None" => layout_node' = layout_node]_vars

\* ------------------------------------------------------------ claims: styles
\* the style derived from the spec of n and the current style of its parent
RECURSIVE FreshStyle(_)
FreshStyle(n) ==
    derive_style(base_style[n], style_kwargs[n],
                 IF styled_parent[n] = None THEN "None" ELSE FreshStyle(styled_parent[n]))

\* C19: update_style never raises, and a cached style is the style derived
\* afresh from the node's spec and its parent's current style, so that every
\* read returns the fresh style.
C19_StyleCache ==
    /\ style_call # <<>> /\ style_call[1] = "update_style" => style_outcome = "ok"
    /\ \A n \in StyledIds :
           cached_style[n] \notin {"deleted", "None"} => cached_style[n] = FreshStyle(n)

\* ------------------------------------------------------------ claims: solution table
\* x clipped to an item's bounds, an absent bound never binding
ClippedInt(b, xv) ==
    IF b[1] # None /\ xv < b[1] THEN b[1]
    ELSE IF b[2] # None /\ xv > b[2] THEN b[2]
    ELSE xv

RECURSIVE ClippedSum(_, _)
ClippedSum(k, xv) ==
    IF k = 0 THEN 0 ELSE ClippedSum(k - 1, xv) + ClippedInt(bounds[k], xv)

\* the items whose allocation still grows at xv
Growing(xv) ==
    {j \in 1..Len(bounds) :
        /\ bounds[j][1] = None \/ bounds[j][1] <= xv
        /\ bounds[j][2] = None \/ xv < bounds[j][2]}

TableEntries == 1..Len(table[1])

\* C23: each table entry (space_breakpoint, x, rate) has space_breakpoint = the
\* sum of x clipped to every item's bounds plus n_unconstrained * x, and rate =
\* the number of items with lower <= x < upper plus n_unconstrained; bounds that
\* share a value produce one entry.
C23_TableEntries ==
    /\ Len(table[1]) = Len(table[2])
    /\ \A i \in TableEntries :
           LET xv == table[2][i][1]
           IN  /\ table[1][i] = ClippedSum(Len(bounds), xv) + n_unconstrained * xv
               /\ table[2][i][2] = Cardinality(Growing(xv)) + n_unconstrained
    /\ \A i, j \in TableEntries : i # j => table[2][i][1] # table[2][j][1]

\* two items share a bound value, an upper bound of one is a lower bound of the other
C23_Witness ==
    /\ Len(bounds) = 2
    /\ n_unconstrained = 1
    /\ bounds[1][1] # None /\ bounds[1][2] # None
    /\ bounds[2][1] = bounds[1][2]
    /\ Len(table[1]) = 3
    /\ outcome = "ok"

\* C24: the space-breakpoint keys of the table are strictly increasing.
C24_StrictKeys ==
    \A i \in TableEntries : i < Len(table[1]) => table[1][i] < table[1][i + 1]

\* C24 as amended: the keys are non-decreasing, and two consecutive keys are
\* equal exactly when the rate of the earlier entry is 0.
C24_SortedKeys ==
    \A i \in TableEntries :
        i < Len(table[1]) =>
            /\ table[1][i] <= table[1][i + 1]
            /\ table[1][i] = table[1][i + 1] <=> table[2][i][2] = 0

\* a table with two equal keys that has answered a solve call at that key
C24_Witness ==
    /\ \E i \in TableEntries : i < Len(table[1]) /\ table[1][i] = table[1][i + 1]
                                  /\ space = table[1][i]
    /\ Len(bounds) = 2
    /\ outcome = "ok"

\* the distinct bound values of the problem
BoundValues ==
    ({bounds[j][1] : j \in 1..Len(bounds)} \cup {bounds[j][2] : j \in 1..Len(bounds)}) \ {None}

\* C30: the table of a problem with n items (bounded plus unconstrained) has at
\* most 2*n entries.
C30_TableSize == Len(table[1]) <= 2 * (Len(bounds) + n_unconstrained)

\* C30 as amended: the table has the entry of x = 0 and one entry per distinct
\* bound value, at most 2*len(bounds) + 1 entries.
C30_TableSizePlusOne ==
    /\ Len(table[1]) = 1 + Cardinality(BoundValues)
    /\ Len(table[1]) <= 2 * Len(bounds) + 1

\* two items, four distinct bound values, no unconstrained item: 5 entries
C30_Witness ==
    /\ Len(bounds) = 2
    /\ n_unconstrained = 0
    /\ Len(table[1]) = 5
    /\ outcome = "ok"

RECURSIVE UpperSum(_)
UpperSum(bs) == IF bs = <<>> THEN 0
                ELSE UpperSum(SubSeq(bs, 1, Len(bs) - 1)) + bs[Len(bs)][2]

AllUpperBounded == n_unconstrained = 0 /\ \A j \in 1..Len(bounds) : bounds[j][2] # None

\* C26: solve never divides by a zero rate: for a non-empty valid bound set it
\* returns an allocation for every space from the sum of the lower bounds up to
\* and including the sum of the upper bounds when every item has an upper bound,
\* and for every space at or above the sum of the lower bounds otherwise.
C26_NoZeroRate ==
    /\ outcome # "ZeroDivisionError"
    /\ (outcome # "none" /\ NonEmpty /\ space >= LowerSum(bounds)
          /\ (AllUpperBounded => space <= UpperSum(bounds)))
       => outcome = "ok"

\* ------------------------------------------------------------ claims: transpose
\* the number of parent links from m up to n, None when m is not below n
RECURSIVE DistanceBelow(_, _, _)
DistanceBelow(P, n, m) ==
    IF m = n THEN 0
    ELSE IF P[m] = None THEN None
    ELSE LET d == DistanceBelow(P, n, P[m])
         IN  IF d = None THEN None ELSE d + 1

Flipped(o) == IF o = "row" THEN "col" ELSE IF o = "col" THEN "row" ELSE o

\* m is n or a descendant of n at distance <= depth, at any distance for depth < 0
WithinDepth(P, n, depth, m) ==
    LET d == DistanceBelow(P, n, m)
    IN  d # None /\ (depth < 0 \/ d <= depth)

\* C21: transpose(depth) flips the orientation of exactly the LayoutNodes at
\* distance <= depth below the node (the node alone for depth 0, every descendant
\* for a negative depth), leaves every other orientation and the tree unchanged,
\* and the same transpose applied twice restores all orientations.
C21_Transpose ==
    [][tree_call' = "transpose" =>
        /\ \A m \in tree_nodes :
               tree_is_row'[m] =
                   IF WithinDepth(tree_parent, transpose_args'[1], transpose_args'[2], m)
                   THEN Flipped(tree_is_row[m]) ELSE tree_is_row[m]
        /\ tree_parent' = tree_parent /\ tree_children' = tree_children
        /\ (tree_call = "transpose" /\ transpose_args'[1] = transpose_args[1]
              /\ transpose_args'[2] = transpose_args[2])
           => tree_is_row' = transpose_args[3]]_vars

\* a chain 1 - 2 - 3 of LayoutNodes after transpose(1) on node 1: node 2 flipped,
\* node 3 not
C21_Witness ==
    /\ tree_call = "transpose"
    /\ tree_parent = <<None, 1, 2>>
    /\ transpose_args[1] = 1 /\ transpose_args[2] = 1
    /\ \A m \in {1, 2, 3} : transpose_args[3][m] # "none"
    /\ tree_is_row[2] # transpose_args[3][2]
    /\ tree_is_row[3] = transpose_args[3][3]

\* ------------------------------------------------------------ claims: anchors
AnchorKind == IF anchor_call[4] \in {"top", "left"} THEN "start"
              ELSE IF anchor_call[4] \in {"bottom", "right"} THEN "end"
              ELSE "centre"

OtherChecksPass(xa, x_min, x_max) ==
    /\ ~(xa # NoneV /\ xa[2] <= 0)
    /\ ~((x_min # NoneV /\ x_min[2] <= 0) \/ (x_max # NoneV /\ x_max[2] <= 0))
    /\ ~(xa[1] = "int" /\ ~(x_min = NoneV /\ x_max = NoneV))
    /\ ~(xa[1] = "float" /\ (x_min[1] = "float" \/ x_max[1] = "float"))
    /\ ~((x_min[1] = "float" /\ RatLess(RatOfInt(1), ValueOf(x_min)))
          \/ (x_max[1] = "float" /\ RatLess(RatOfInt(1), ValueOf(x_max))))

\* both bounds present and of the same kind
SameKind(x_min, x_max) == x_min # NoneV /\ x_min[1] = x_max[1]

\* the axis passes when the bounds are compared only if they are of the same kind
AxisAccepted(xa, x_min, x_max) ==
    /\ OtherChecksPass(xa, x_min, x_max)
    /\ SameKind(x_min, x_max) => RatLess(ValueOf(x_min), ValueOf(x_max))

\* C28: the constructor compares the lower and the upper bound of an axis only when
\* both are of the same kind: a declaration with an absolute lower bound and a
\* relative upper bound is accepted, not rejected.
C28_SameKindComparison ==
    (cframe_outcome # "none"
        /\ AxisAccepted(cframe_decl.height, cframe_decl.height_min, cframe_decl.height_max)
        /\ AxisAccepted(cframe_decl.width, cframe_decl.width_min, cframe_decl.width_max))
    => cframe_outcome = "ok"

\* ------------------------------------------------------------ claims: normalized bounds
\* C25: every (lower, upper) pair that _allocate_space passes to SpaceAllocator,
\* fractional bounds converted to floor(fraction * space) and integer bounds kept,
\* has lower < upper when both are present, for every accepted declaration and
\* every space.
C25_NormalizedBounds ==
    node_solver.set =>
        \A i \in 1..Len(node_solver.bounds) :
            LET b == node_solver.bounds[i]
            IN  (b[1] # None /\ b[2] # None) => b[1] < b[2]

\* ------------------------------------------------------------ claims: gaps
\* C27: in update_frame the size that _allocate_space assigns to a child along the
\* axis of its parent always passes the child's own set_dimensions validation: no
\* child is rejected with FrameConstraintError because the parent has a gap.
C27_ChildAccepted == update_outcome # "FrameConstraintError"

\* ------------------------------------------------------------ claims: hexes
\* C29: whenever Column.update or Row.update completes without raising, every
\* dynamic (relative or implicit) row or column has received at least 1 cell.
C29_DynamicAtLeastOne ==
    (hexes_call # <<>> /\ hexes_call[3] = "ok") =>
        \A i \in 1..Len(hexes_items) :
            hexes_items[i][1] # "int" => hexes_call[4][i] >= 1

====
